---- MODULE Spec2Model ----
(***************************************************************************)
(* A model of the AuraCursor engine of src/src/aura-cursor.ts: one         *)
(* instance, the document it draws into and the window that delivers its   *)
(* events and animation frames.                                            *)
(*                                                                         *)
(* Numbers.  Lengths are whole pixels.  Opacities and scales are kept in   *)
(* hundredths (50 is 0.5), speeds in twentieths (6 is 0.3), positions in   *)
(* units of 1/PosScale pixel, so that the interpolation of animate() is    *)
(* exact rational arithmetic for MaxTicks moving ticks in a row.           *)
(* An optional value is a tuple: << >> is undefined, <<v>> is v.           *)
(***************************************************************************)
EXTENDS Integers, Sequences, FiniteSets, TLC

\* cursor, document and window are the instance, the page and the host;
\* peer is a second instance on the same page, where there is one.
VARIABLES cursor, document, window, hist, peer

vars == <<cursor, document, window, hist, peer>>

(***************************************************************************)
(* Bounds of the model.                                                    *)
(***************************************************************************)
MaxTicks == 2

MaxInitRun == 2

(***************************************************************************)
(* Values of the language and of the host.                                 *)
(***************************************************************************)
\* null for element references, animationFrameId and resizeHandler
Null == 0

Undefined == << >>

Def(v) == <<v>>

IsDef(o) == o # Undefined

\* JavaScript truthiness of an optional string
TruthyStr(o) == IsDef(o) /\ o[1] # ""

\* JavaScript truthiness of an optional number
TruthyNum(o) == IsDef(o) /\ o[1] # 0

\* a ?? b
Coalesce(o, d) == IF IsDef(o) THEN o[1] ELSE d

RECURSIVE Pow(_, _)
Pow(b, k) == IF k = 0 THEN 1 ELSE b * Pow(b, k - 1)

\* One tick multiplies by a number of twentieths: positions are kept in units
\* of 1/PosScale pixel, which the MaxTicks frames of a run cannot exhaust.
PosScale == Pow(20, MaxTicks)

(***************************************************************************)
(* Conversions: template literals, String() and the CSSOM's serialisation. *)
(***************************************************************************)
\* `${n}px` for a whole number n
Px(n) == ToString(n) \o "px"

RECURSIVE StripZeros(_)
StripZeros(digits) ==
    IF digits # << >> /\ digits[Len(digits)] = 0
    THEN StripZeros(SubSeq(digits, 1, Len(digits) - 1))
    ELSE digits

RECURSIVE DigitsOf(_, _)
\* the k decimal digits of n (n < 10^k), most significant first
DigitsOf(n, k) == IF k = 0 THEN << >> ELSE DigitsOf(n \div 10, k - 1) \o <<n % 10>>

RECURSIVE Concat(_)
Concat(digits) == IF digits = << >> THEN "" ELSE ToString(digits[1]) \o Concat(Tail(digits))

\* Number-to-string of the fraction n/den, den a divisor of 10^k, n >= 0
Decimal(n, den, k) ==
    LET pow  == Pow(10, k)
        frac == StripZeros(DigitsOf((n % den) * (pow \div den), k))
    IN  ToString(n \div den) \o (IF frac = << >> THEN "" ELSE "." \o Concat(frac))

\* String(x) for x in hundredths: String(0.5) = "0.5", String(0) = "0"
StringOf(h) == Decimal(h, 100, 2)

\* `${x}px` for a position x in units of 1/PosScale pixel
PosPx(v) ==
    Decimal(v, PosScale, 2 * MaxTicks) \o "px"

\* The CSSOM serialises the border shorthand as the empty string when every
\* longhand has its initial value, which is what border = 'none' leaves.
CssBorder(v) == IF v = "none" THEN "" ELSE v

\* The CSSOM serialises a colour it is given in hex notation as rgb().
CssColor(c) ==
    CASE c = "#000000" -> "rgb(0, 0, 0)"
      [] c = "#ff0000" -> "rgb(255, 0, 0)"
      [] c = "#00ff00" -> "rgb(0, 255, 0)"
      [] c = "#0000ff" -> "rgb(0, 0, 255)"
      [] OTHER -> c

(***************************************************************************)
(* The page under the pointer: a fixed tree of elements below the body.    *)
(* "svg" stands for an event target that is no HTMLElement.                *)
(***************************************************************************)
PageElements ==
    {"plain", "link", "linkText", "card", "cardText", "roleButton", "button",
     "checkbox", "textInput", "clickable"}

EventTargets == PageElements \cup {"svg"}

parentElement(el) ==
    CASE el = "linkText" -> "link"
      [] el = "cardText" -> "card"
      [] OTHER -> "body"

tagName(el) ==
    CASE el = "link" -> "A"
      [] el = "button" -> "BUTTON"
      [] el \in {"checkbox", "textInput"} -> "INPUT"
      [] el \in {"linkText", "cardText"} -> "SPAN"
      [] OTHER -> "DIV"

inputType(el) ==
    CASE el = "checkbox" -> "checkbox"
      [] el = "textInput" -> "text"
      [] OTHER -> ""

\* "clickable" carries an onclick attribute, hence also the onclick property
hasOnclick(el) == el = "clickable"

roleAttribute(el) == IF el = "roleButton" THEN Def("button") ELSE Undefined

\* The cursor property the page's own style sheets give an element
\* ("" when they give none and the value is inherited).
AuthorCursor == [el \in PageElements |-> IF el = "card" THEN "pointer" ELSE ""]

\* The cursor property the user-agent style sheet gives an element ("" when
\* it gives none): hyperlinks get pointer, buttons and checkboxes get default,
\* text fields get text.
UserAgentCursor(el) ==
    CASE el = "link" -> "pointer"
      [] el \in {"button", "checkbox"} -> "default"
      [] el = "textInput" -> "text"
      [] OTHER -> ""

(***************************************************************************)
(* The document: the nodes the engine creates (and strays carrying its     *)
(* marker classes), each with the parent it is attached to and its inline  *)
(* style.  Only the style properties some reader depends on are kept.      *)
(***************************************************************************)
BlankStyle ==
    [position |-> "", width |-> "", height |-> "", backgroundColor |-> "",
     border |-> "", opacity |-> "", transform |-> "", left |-> "", top |-> "",
     display |-> "", zIndex |-> ""]

Merge(r, changes) ==
    [k \in DOMAIN r |-> IF k \in DOMAIN changes THEN changes[k] ELSE r[k]]

MarkerClasses == {"aura-cursor", "aura-cursor-dot", "aura-cursor-center-dot"}

SuppressionRule == "* { cursor: none !important; }"

\* document.createElement: a node no reference and no parent holds yet
FreshId(d) ==
    LET used == DOMAIN d.nodes
    IN  CHOOSE n \in 1..(Cardinality(used) + 1) : n \notin used

NewNode(tag) ==
    [tagName |-> tag, id |-> "", className |-> << >>, textContent |-> "",
     parentNode |-> "", style |-> BlankStyle]

createElement(st, n, tag) == [st EXCEPT !.d.nodes = @ @@ (n :> NewNode(tag))]

appendChild(st, parent, n) == [st EXCEPT !.d.nodes[n].parentNode = parent]

removeChild(st, n) == [st EXCEPT !.d.nodes[n].parentNode = ""]

setStyle(st, n, changes) == [st EXCEPT !.d.nodes[n].style = Merge(@, changes)]

HasClass(node, cls) == \E i \in 1..Len(node.className) : node.className[i] = cls

\* document.querySelectorAll('.c1, .c2, ...')
querySelectorAll(d, classes) ==
    {n \in DOMAIN d.nodes :
        /\ d.nodes[n].parentNode # ""
        /\ \E cls \in classes : HasClass(d.nodes[n], cls)}

RECURSIVE removeAll(_, _)
\* forEach(element => element.parentNode.removeChild(element))
removeAll(st, ns) ==
    IF ns = {} THEN st
    ELSE LET n == CHOOSE x \in ns : TRUE
         IN  removeAll(IF st.d.nodes[n].parentNode # "" THEN removeChild(st, n) ELSE st,
                       ns \ {n})

\* Nodes that nothing refers to any more are reclaimed by the host.
Referenced(c) == {c.cursorElement, c.cursorDot, c.centerDot, c.styleElement} \ {Null}

\* A node's identity is opaque to the program.  Between operations the nodes
\* are named after the field that refers to them (1 to 4), and the attached
\* nodes no field refers to are numbered from 5 on.
Collect(st) ==
    LET c      == st.c
        live   == {n \in DOMAIN st.d.nodes :
                      st.d.nodes[n].parentNode # "" \/ n \in Referenced(c)}
        others == live \ Referenced(c)
        name(n) == IF n = Null THEN Null
                   ELSE IF n = c.cursorElement THEN 1
                   ELSE IF n = c.cursorDot THEN 2
                   ELSE IF n = c.centerDot THEN 3
                   ELSE IF n = c.styleElement THEN 4
                   ELSE 4 + Cardinality({m \in others : m <= n})
        named  == {name(n) : n \in live}
    IN  [st EXCEPT !.d.nodes = [k \in named |->
                                   st.d.nodes[CHOOSE n \in live : name(n) = k]],
                   !.c.cursorElement = name(@), !.c.cursorDot = name(@),
                   !.c.centerDot = name(@), !.c.styleElement = name(@)]

(***************************************************************************)
(* The window: viewport, touch capability, user agent, the listeners       *)
(* registered on window and document, and the animation frames requested.  *)
(***************************************************************************)
DesktopUA == "Mozilla/5.0 (X11; Linux x86_64)"

PhoneUA == "Mozilla/5.0 (iPhone; CPU iPhone OS 17_0 like Mac OS X)"

\* /Android|webOS|iPhone|iPad|iPod|BlackBerry|IEMobile|Opera Mini/i.test(ua)
MobilePattern(ua) == ua = PhoneUA

\* requestAnimationFrame: a handle no pending request uses
requestAnimationFrame(st) ==
    CHOOSE n \in 1..(Cardinality(st.w.frames) + 1) : n \notin st.w.frames

cancelAnimationFrame(st, n) == [st EXCEPT !.w.frames = @ \ {n}]

InputListeners ==
    {<<"window", "mousemove">>, <<"document", "mouseleave">>,
     <<"document", "mouseenter">>, <<"window", "blur">>, <<"window", "focus">>}

ResizeListeners == {<<"window", "resize">>, <<"window", "orientationchange">>}

(***************************************************************************)
(* AuraCursor: constructor and mobile classification.                      *)
(***************************************************************************)
NoOptions ==
    [size |-> Undefined, color |-> Undefined, opacity |-> Undefined,
     speed |-> Undefined, hideDefaultCursor |-> Undefined, className |-> Undefined,
     interactiveOnly |-> Undefined, hoverEffect |-> Undefined,
     outlineMode |-> Undefined, outlineWidth |-> Undefined,
     centerDotColor |-> Undefined, hoverColor |-> Undefined,
     centerDotSize |-> Undefined, centerDotHoverColor |-> Undefined]

DefaultSize == 20

DefaultOpacity == 50

DefaultSpeed == 6

DefaultOutlineWidth == 2

DefaultCenterDotSize == 3

constructor(options) ==
    LET baseOptions ==
            [size |-> Coalesce(options.size, DefaultSize),
             color |-> Coalesce(options.color, "#000000"),
             opacity |-> Coalesce(options.opacity, DefaultOpacity),
             speed |-> Coalesce(options.speed, DefaultSpeed),
             hideDefaultCursor |-> Coalesce(options.hideDefaultCursor, FALSE),
             className |-> Coalesce(options.className, << >>),
             interactiveOnly |-> Coalesce(options.interactiveOnly, FALSE),
             outlineMode |-> Coalesce(options.outlineMode, FALSE),
             outlineWidth |-> Coalesce(options.outlineWidth, DefaultOutlineWidth),
             centerDotColor |-> options.centerDotColor,
             hoverColor |-> options.hoverColor,
             centerDotSize |-> Coalesce(options.centerDotSize, DefaultCenterDotSize),
             centerDotHoverColor |-> options.centerDotHoverColor]
    IN  [cursorElement |-> Null, cursorDot |-> Null, centerDot |-> Null,
         styleElement |-> Null,
         currentX |-> 0, currentY |-> 0, targetX |-> 0, targetY |-> 0,
         centerDotX |-> 0, centerDotY |-> 0, outlineCircleX |-> 0, outlineCircleY |-> 0,
         animationFrameId |-> Null,
         isActive |-> FALSE, isPointer |-> FALSE, isHoveringInteractive |-> FALSE,
         isOnInteractiveElement |-> FALSE, isMouseInWindow |-> TRUE,
         options |-> baseOptions @@ [hoverEffect |-> options.hoverEffect],
         baseOptions |-> baseOptions,
         pointerElementsCache |-> << >>,
         resizeHandler |-> Null]

SmallScreenWidth == 768

\* A classification by touch capability alone (C6 depends on the small
\* screen with a mobile user agent).
isMobileDeviceTouchOnly(st) == st.w.ontouchstart \/ st.w.maxTouchPoints > 0

isMobileDevice(st) ==
    LET hasTouch == st.w.ontouchstart \/ st.w.maxTouchPoints > 0
        isSmallScreen == st.w.innerWidth <= SmallScreenWidth
        isMobileUserAgent == MobilePattern(st.w.userAgent)
    IN  hasTouch \/ (isSmallScreen /\ isMobileUserAgent)

(***************************************************************************)
(* Style Projector.                                                        *)
(***************************************************************************)
updateCursorPosition(st) ==
    IF st.c.cursorElement = Null THEN st
    ELSE IF st.c.options.outlineMode
    THEN setStyle(st, st.c.cursorElement,
                  [left |-> PosPx(st.c.outlineCircleX), top |-> PosPx(st.c.outlineCircleY)])
    ELSE setStyle(st, st.c.cursorElement,
                  [left |-> PosPx(st.c.currentX), top |-> PosPx(st.c.currentY)])

updateCenterDotPosition(st) ==
    IF st.c.centerDot = Null \/ ~st.c.options.hideDefaultCursor \/ st.c.options.outlineMode
    THEN st
    ELSE setStyle(st, st.c.centerDot,
                  [position |-> "fixed",
                   left |-> PosPx(st.c.centerDotX), top |-> PosPx(st.c.centerDotY),
                   transform |-> "translate(-50%, -50%)", display |-> "block",
                   border |-> CssBorder("none")])

updateCursorDotPosition(st) ==
    IF st.c.cursorDot = Null \/ ~st.c.options.outlineMode THEN st
    ELSE setStyle(st, st.c.cursorDot,
                  [left |-> PosPx(st.c.centerDotX), top |-> PosPx(st.c.centerDotY),
                   border |-> "0px"])

\* lines 418-425: the colour of the primary layer
primaryColor(c) ==
    IF c.isHoveringInteractive \/ c.isPointer
    THEN IF TruthyStr(c.baseOptions.hoverColor) THEN c.baseOptions.hoverColor[1]
         ELSE IF c.isPointer /\ IsDef(c.options.hoverEffect)
                 /\ TruthyStr(c.options.hoverEffect[1].color)
              THEN c.options.hoverEffect[1].color[1]
              ELSE c.baseOptions.color
    ELSE c.baseOptions.color

\* lines 427-429
primaryOpacity(c) ==
    IF c.isPointer /\ IsDef(c.options.hoverEffect) /\ IsDef(c.options.hoverEffect[1].opacity)
    THEN c.options.hoverEffect[1].opacity[1]
    ELSE c.baseOptions.opacity

\* lines 431-433 (1 is kept as 100 hundredths)
primaryScale(c) ==
    IF c.isPointer /\ IsDef(c.options.hoverEffect) /\ TruthyNum(c.options.hoverEffect[1].scale)
    THEN c.options.hoverEffect[1].scale[1]
    ELSE 100

\* lines 460-477: the colour of the inner dot of outline mode
cursorDotColor(c) ==
    IF c.isHoveringInteractive \/ c.isPointer
    THEN IF TruthyStr(c.baseOptions.centerDotHoverColor) THEN c.baseOptions.centerDotHoverColor[1]
         ELSE IF TruthyStr(c.baseOptions.centerDotColor) THEN c.baseOptions.centerDotColor[1]
         ELSE IF TruthyStr(c.baseOptions.hoverColor) THEN c.baseOptions.hoverColor[1]
         ELSE c.baseOptions.color
    ELSE IF TruthyStr(c.baseOptions.centerDotColor) THEN c.baseOptions.centerDotColor[1]
         ELSE c.baseOptions.color

\* lines 514-520: the colour of the center dot of hide-default-cursor mode
centerDotColor(c) ==
    IF c.isHoveringInteractive \/ c.isPointer
    THEN IF TruthyStr(c.baseOptions.centerDotHoverColor) THEN c.baseOptions.centerDotHoverColor[1]
         ELSE IF TruthyStr(c.baseOptions.centerDotColor) THEN c.baseOptions.centerDotColor[1]
         ELSE c.baseOptions.color
    ELSE IF TruthyStr(c.baseOptions.centerDotColor) THEN c.baseOptions.centerDotColor[1]
         ELSE c.baseOptions.color

\* lines 435-446
applyPrimaryBase(st) ==
    setStyle(st, st.c.cursorElement,
             [position |-> "fixed",
              width |-> Px(st.c.baseOptions.size), height |-> Px(st.c.baseOptions.size),
              zIndex |-> "9999",
              transform |-> "translate(-50%, -50%) scale(" \o StringOf(primaryScale(st.c)) \o ")",
              left |-> "0px", top |-> "0px"])

\* lines 448-509
applyPrimaryMode(st) ==
    LET c == st.c
        color == primaryColor(c)
    IN  IF c.options.outlineMode
        THEN LET s1 == setStyle(st, c.cursorElement,
                          [width |-> Px(c.baseOptions.size), height |-> Px(c.baseOptions.size),
                           backgroundColor |-> "transparent",
                           border |-> Px(c.options.outlineWidth) \o " solid " \o CssColor(color),
                           opacity |-> StringOf(primaryOpacity(c)),
                           zIndex |-> "9999"])
             IN  IF c.cursorDot = Null THEN s1
                 ELSE [s1 EXCEPT !.d.nodes[c.cursorDot].style =
                          Merge(BlankStyle,
                                [position |-> "fixed",
                                 width |-> Px(c.baseOptions.centerDotSize),
                                 height |-> Px(c.baseOptions.centerDotSize),
                                 backgroundColor |-> CssColor(cursorDotColor(c)),
                                 border |-> "0px", opacity |-> "1", zIndex |-> "10001",
                                 display |-> "block", transform |-> "translate(-50%, -50%)",
                                 left |-> PosPx(c.centerDotX), top |-> PosPx(c.centerDotY)])]
        ELSE LET s1 == setStyle(st, c.cursorElement,
                          [backgroundColor |-> CssColor(color),
                           opacity |-> StringOf(primaryOpacity(c)),
                           border |-> CssBorder("none")])
             IN  IF c.cursorDot = Null THEN s1
                 ELSE setStyle(s1, c.cursorDot, [display |-> "none"])

\* lines 511-540
applyCenterDot(st) ==
    LET c == st.c
    IN  IF c.centerDot = Null THEN st
        ELSE IF c.options.hideDefaultCursor /\ ~c.options.outlineMode
        THEN updateCenterDotPosition(
                 setStyle(st, c.centerDot,
                          [width |-> Px(c.baseOptions.centerDotSize),
                           height |-> Px(c.baseOptions.centerDotSize),
                           backgroundColor |-> CssColor(centerDotColor(c)),
                           border |-> CssBorder("none"), opacity |-> "1", zIndex |-> "10000",
                           display |-> "block"]))
        ELSE setStyle(st, c.centerDot, [display |-> "none"])

applyStyles(st) ==
    IF st.c.cursorElement = Null THEN st
    ELSE applyCenterDot(applyPrimaryMode(applyPrimaryBase(st)))

\* A hide that leaves the layer as it is (C13 depends on the opacity written).
hideLayerSkipped(st, n) == st

\* if (layer) { layer.style.opacity = '0'; }
hideLayer(st, n) == IF n # Null THEN setStyle(st, n, [opacity |-> "0"]) ELSE st

hideCursor(st) ==
    hideLayer(hideLayer(hideLayer(st, st.c.cursorElement), st.c.cursorDot), st.c.centerDot)

(***************************************************************************)
(* Global suppression of the default cursor.                               *)
(***************************************************************************)
\* An install that keeps the interactivity cache.
hideDefaultCursorKeepingCache(st) ==
    IF st.c.styleElement = Null
    THEN LET n  == FreshId(st.d)
             s1 == createElement(st, n, "style")
             s2 == [s1 EXCEPT !.c.styleElement = n,
                              !.d.nodes[n].id = "aura-cursor-hide-default",
                              !.d.nodes[n].textContent = SuppressionRule]
         IN  appendChild(s2, "head", n)
    ELSE st

hideDefaultCursor(st) ==
    IF st.c.styleElement = Null
    THEN LET n  == FreshId(st.d)
             s1 == createElement(st, n, "style")
             s2 == [s1 EXCEPT !.c.styleElement = n,
                              !.d.nodes[n].id = "aura-cursor-hide-default",
                              !.d.nodes[n].textContent = SuppressionRule]
             s3 == appendChild(s2, "head", n)
         IN  [s3 EXCEPT !.c.pointerElementsCache = << >>]
    ELSE st

showDefaultCursor(st) ==
    IF st.c.styleElement # Null /\ st.d.nodes[st.c.styleElement].parentNode # ""
    THEN [removeChild(st, st.c.styleElement) EXCEPT
             !.c.styleElement = Null, !.c.pointerElementsCache = << >>]
    ELSE st

(***************************************************************************)
(* Visual layers.                                                          *)
(***************************************************************************)
\* createCursorElement() without its first sweep: layers already in the
\* document stay (C1 depends on the sweep).
removeExistingCursorsSkipped(st) == st

\* lines 345-350: layers left in the document by anyone are removed first
removeExistingCursors(st) == removeAll(st, querySelectorAll(st.d, MarkerClasses))

\* lines 352-357
createPrimaryLayer(st) ==
    LET n  == FreshId(st.d)
        s1 == createElement(st, n, "div")
        s2 == [s1 EXCEPT !.c.cursorElement = n,
                         !.d.nodes[n].className = <<"aura-cursor">> \o st.c.options.className]
    IN  appendChild(applyStyles(s2), "body", n)

\* lines 359-364
createOutlineDot(st) ==
    IF st.c.options.outlineMode
    THEN LET n  == FreshId(st.d)
             s1 == createElement(st, n, "div")
             s2 == [s1 EXCEPT !.c.cursorDot = n,
                              !.d.nodes[n].className = <<"aura-cursor-dot">>]
         IN  applyStyles(appendChild(s2, "body", n))
    ELSE st

\* lines 366-376
createCenterDot(st) ==
    IF st.c.options.hideDefaultCursor /\ ~st.c.options.outlineMode
    THEN IF st.c.centerDot = Null
         THEN LET n  == FreshId(st.d)
                  s1 == createElement(st, n, "div")
                  s2 == [s1 EXCEPT !.c.centerDot = n,
                                   !.d.nodes[n].className = <<"aura-cursor-center-dot">>]
              IN  applyStyles(appendChild(s2, "body", n))
         ELSE st
    ELSE IF st.c.centerDot # Null /\ st.d.nodes[st.c.centerDot].parentNode # ""
         THEN [removeChild(st, st.c.centerDot) EXCEPT !.c.centerDot = Null]
         ELSE st

\* A seed that ignores the last pointer event.
seedPositionsAtCentre(st) ==
    LET initialX == (st.w.innerWidth * PosScale) \div 2
        initialY == (st.w.innerHeight * PosScale) \div 2
    IN  [st EXCEPT !.c.currentX = initialX, !.c.currentY = initialY,
                   !.c.targetX = initialX, !.c.targetY = initialY,
                   !.c.centerDotX = initialX, !.c.centerDotY = initialY,
                   !.c.outlineCircleX = initialX, !.c.outlineCircleY = initialY]

\* lines 378-397: the last pointer location seen, or the centre of the viewport
seedPositions(st) ==
    LET last == st.d.lastMouseEvent
        initialX == IF IsDef(last) THEN last[1].clientX ELSE (st.w.innerWidth * PosScale) \div 2
        initialY == IF IsDef(last) THEN last[1].clientY ELSE (st.w.innerHeight * PosScale) \div 2
    IN  [st EXCEPT !.c.currentX = initialX, !.c.currentY = initialY,
                   !.c.targetX = initialX, !.c.targetY = initialY,
                   !.c.centerDotX = initialX, !.c.centerDotY = initialY,
                   !.c.outlineCircleX = initialX, !.c.outlineCircleY = initialY]

\* lines 399-405: the new layers start invisible
hideNewLayers(st) == hideCursor(st)

createCursorElement(st) ==
    updateCursorPosition(
        hideNewLayers(
            seedPositions(
                createCenterDot(
                    createOutlineDot(
                        createPrimaryLayer(
                            removeExistingCursors(st)))))))

\* lines 914-931
\* if (layer && layer.parentNode) { layer.parentNode.removeChild(layer); }
dropLayer(st, n) ==
    IF n # Null /\ st.d.nodes[n].parentNode # "" THEN removeChild(st, n) ELSE st

removeOwnLayers(st) ==
    [dropLayer(dropLayer(dropLayer(st, st.c.cursorElement), st.c.cursorDot), st.c.centerDot)
        EXCEPT !.c.cursorElement = Null, !.c.cursorDot = Null, !.c.centerDot = Null]

\* lines 933-938
removeOrphanedCursors(st) == removeAll(st, querySelectorAll(st.d, MarkerClasses))

\* removeCursorElement() that only forgets its layers and leaves them in the
\* document (C2 depends on the removal).
removeCursorElementForgetting(st) ==
    [st EXCEPT !.c.cursorElement = Null, !.c.cursorDot = Null, !.c.centerDot = Null]

removeCursorElement(st) == removeOrphanedCursors(removeOwnLayers(st))

(***************************************************************************)
(* Listeners.                                                              *)
(***************************************************************************)
attachEventListeners(st) == [st EXCEPT !.w.listeners = @ \cup InputListeners]

\* A removal that leaves the focus listener attached.
removeEventListenersButFocus(st) ==
    [st EXCEPT !.w.listeners = @ \ (InputListeners \ {<<"window", "focus">>})]

removeEventListeners(st) == [st EXCEPT !.w.listeners = @ \ InputListeners]

\* lines 859-862 and 895-896: the handler itself is resizeHandler(st) below
setupResizeListener(st) ==
    IF st.c.resizeHandler # Null THEN st
    ELSE [st EXCEPT !.c.resizeHandler = 1, !.w.listeners = @ \cup ResizeListeners]

removeResizeListener(st) ==
    IF st.c.resizeHandler # Null
    THEN [st EXCEPT !.c.resizeHandler = Null, !.w.listeners = @ \ ResizeListeners]
    ELSE st

(***************************************************************************)
(* Motion Integrator.                                                      *)
(***************************************************************************)
Abs(x) == IF x < 0 THEN -x ELSE x

Min(a, b) == IF a < b THEN a ELSE b

DistanceThreshold == 50

\* Math.sqrt(dx^2 + dy^2) > 50 for dx, dy in units of 1/PosScale pixel,
\* with the squares split into whole pixels and fractions.
Far(dx, dy) ==
    LET qx == Abs(dx) \div PosScale
        rx == Abs(dx) % PosScale
        qy == Abs(dy) \div PosScale
        ry == Abs(dy) % PosScale
        Q  == qx * qx + qy * qy
        A  == 2 * (qx * rx + qy * ry)
        B  == rx * rx + ry * ry
        T  == DistanceThreshold * DistanceThreshold
    IN  IF Q > T THEN TRUE
        ELSE IF Q = T THEN A + B > 0
        ELSE \/ A + (B \div PosScale) > (T - Q) * PosScale
             \/ (A + (B \div PosScale) = (T - Q) * PosScale /\ B % PosScale > 0)

SpeedCap == 16

\* A factor that ignores the distance to the target.
adaptiveSpeedFlat(c) == c.options.speed

\* The interpolation factor of one tick, in twentieths (lines 602-605, 618-620).
adaptiveSpeed(c) ==
    IF c.options.outlineMode
    THEN LET baseSpeed == c.options.speed \div 2
         IN  IF Far(c.targetX - c.outlineCircleX, c.targetY - c.outlineCircleY)
             THEN Min(baseSpeed * 2, SpeedCap) ELSE baseSpeed
    ELSE IF Far(c.targetX - c.currentX, c.targetY - c.currentY)
         THEN Min(c.options.speed * 2, SpeedCap) ELSE c.options.speed

\* A step that jumps to the target.
LerpSnap(x, target, e) == target

\* x += (target - x) * adaptiveSpeed
Lerp(x, target, e) == x + ((target - x) * e) \div 20

\* lines 593-627
animateStep(st) ==
    LET c == st.c
        e == adaptiveSpeed(c)
        s1 == IF c.options.outlineMode
              THEN updateCursorDotPosition(updateCursorPosition(
                       [st EXCEPT !.c.centerDotX = c.targetX, !.c.centerDotY = c.targetY,
                                  !.c.outlineCircleX = Lerp(c.outlineCircleX, c.targetX, e),
                                  !.c.outlineCircleY = Lerp(c.outlineCircleY, c.targetY, e)]))
              ELSE updateCursorPosition(
                       [st EXCEPT !.c.currentX = Lerp(c.currentX, c.targetX, e),
                                  !.c.currentY = Lerp(c.currentY, c.targetY, e)])
    IN  updateCenterDotPosition(s1)

\* A tick that does not request the next frame.
animateRearmDropped(st) == st

\* line 629
animateRearm(st) ==
    LET n == requestAnimationFrame(st)
    IN  [st EXCEPT !.c.animationFrameId = n, !.w.frames = @ \cup {n}]

animate(st) == animateRearm(animateStep(st))

(***************************************************************************)
(* Interaction Classifier.  Both operators return the state (the cache may *)
(* have grown) together with the result.                                   *)
(***************************************************************************)
RECURSIVE inheritedCursor(_, _)
inheritedCursor(d, el) ==
    IF el = "body" THEN "auto"
    ELSE IF d.pageCursor[el] # "" THEN d.pageCursor[el]
    ELSE IF UserAgentCursor(el) # "" THEN UserAgentCursor(el)
    ELSE inheritedCursor(d, parentElement(el))

\* window.getComputedStyle(el).cursor
getComputedCursor(d, el) ==
    IF \E n \in DOMAIN d.nodes :
           /\ d.nodes[n].parentNode = "head"
           /\ d.nodes[n].textContent = SuppressionRule
    THEN "none"
    ELSE inheritedCursor(d, el)

\* A read of the original style that forgets to put the suppression back.
reattachStyleForgotten(st, parent) == st

\* line 662: globalStyleParent.appendChild(this.styleElement)
reattachStyle(st, parent) == appendChild(st, parent, st.c.styleElement)

\* lines 656-663: the suppression style is in the way of the read
suppressionHidesCursor(st, seen) ==
    /\ seen = "none"
    /\ st.c.options.hideDefaultCursor
    /\ st.c.styleElement # Null
    /\ st.d.nodes[st.c.styleElement].parentNode # ""

RECURSIVE hasPointerCursor(_, _)
hasPointerCursor(st, current) ==
    IF current = "body" THEN [st |-> st, result |-> FALSE]
    ELSE IF current \in DOMAIN st.c.pointerElementsCache
    THEN IF st.c.pointerElementsCache[current]
         THEN [st |-> st, result |-> TRUE]
         ELSE hasPointerCursor(st, parentElement(current))
    ELSE LET seen == getComputedCursor(st.d, current)
             unhide == suppressionHidesCursor(st, seen)
             detached == removeChild(st, st.c.styleElement)
             cursorValue == IF unhide THEN getComputedCursor(detached.d, current) ELSE seen
             s0 == IF unhide
                   THEN reattachStyle(detached, st.d.nodes[st.c.styleElement].parentNode)
                   ELSE st
             hasPointer == cursorValue = "pointer"
             s1 == [s0 EXCEPT !.c.pointerElementsCache = (current :> hasPointer) @@ @]
         IN  IF hasPointer THEN [st |-> s1, result |-> TRUE]
             ELSE hasPointerCursor(s1, parentElement(current))

InteractiveSelector(el) ==
    \/ tagName(el) \in {"A", "BUTTON"}
    \/ roleAttribute(el) = Def("button")
    \/ hasOnclick(el)
    \/ (tagName(el) = "INPUT" /\ inputType(el) \in {"range", "color", "checkbox"})

RECURSIVE closest(_)
\* element.closest(selector) !== null
closest(el) ==
    IF el = "body" THEN FALSE
    ELSE InteractiveSelector(el) \/ closest(parentElement(el))

\* A check of the tag name alone, which leaves out the role, the onclick
\* handler, the interactive inputs and the containers.
isInteractiveByTagAlone(r, element) ==
    IF r.result THEN r
    ELSE [st |-> r.st, result |-> tagName(element) \in {"A", "BUTTON"}]

\* lines 686-703: what is tried once no pointer cursor was found (r)
isInteractiveByMarkup(r, element) ==
    IF r.result THEN r
    ELSE [st |-> r.st,
          result |-> \/ tagName(element) = "A"
                     \/ tagName(element) = "BUTTON"
                     \/ roleAttribute(element) = Def("button")
                     \/ hasOnclick(element)
                     \/ (tagName(element) = "INPUT"
                         /\ inputType(element) \in {"range", "color", "checkbox"})
                     \/ closest(element)]

isInteractiveElement(st, element) ==
    IF element \notin PageElements THEN [st |-> st, result |-> FALSE]
    ELSE isInteractiveByMarkup(hasPointerCursor(st, element), element)

(***************************************************************************)
(* Event handlers.                                                         *)
(***************************************************************************)
PrimaryOpacityIsZero(st) ==
    st.c.cursorElement # Null /\ st.d.nodes[st.c.cursorElement].style.opacity = "0"

\* lines 804-807
setHoveringInteractive(st, isInteractive) ==
    IF st.c.isHoveringInteractive # isInteractive
    THEN applyStyles([st EXCEPT !.c.isHoveringInteractive = isInteractive])
    ELSE st

\* lines 812-815, r being what isInteractiveElement returned
setPointer(r) ==
    IF r.st.c.isPointer # r.result
    THEN applyStyles([r.st EXCEPT !.c.isPointer = r.result])
    ELSE r.st

\* lines 809-816
classifyPointer(st, e) ==
    IF IsDef(st.c.options.hoverEffect)
    THEN setPointer(isInteractiveElement(st, e.target))
    ELSE st

\* lines 818-819
setTarget(st, e) == [st EXCEPT !.c.targetX = e.clientX, !.c.targetY = e.clientY]

\* lines 821-825
moveCursorDot(st, e) ==
    IF st.c.options.outlineMode
    THEN updateCursorDotPosition(
             [st EXCEPT !.c.centerDotX = e.clientX, !.c.centerDotY = e.clientY])
    ELSE st

\* lines 827-831
moveCenterDot(st, e) ==
    IF st.c.options.hideDefaultCursor
    THEN updateCenterDotPosition(
             [st EXCEPT !.c.centerDotX = e.clientX, !.c.centerDotY = e.clientY])
    ELSE st

\* lines 804-831: hover flags, target and dot positions
handleMouseMoveTail(st, e, isInteractive) ==
    moveCenterDot(
        moveCursorDot(
            setTarget(
                classifyPointer(setHoveringInteractive(st, isInteractive), e), e), e), e)

\* A pointer move that never reveals the layers (C9 depends on the reveal).
handleMouseMoveRevealNever(st) == st

\* lines 773-775 and 799-801: the reveal
handleMouseMoveReveal(st) ==
    IF PrimaryOpacityIsZero(st) THEN applyStyles(st) ELSE st

\* lines 784-802 and on, r being what isInteractiveElement returned
handleMouseMoveClassified(r, e) ==
    LET isInteractive == r.result
        wasOnInteractive == r.st.c.isOnInteractiveElement
        s2 == [r.st EXCEPT !.c.isOnInteractiveElement = isInteractive]
    IN  IF s2.c.options.interactiveOnly
        THEN IF ~isInteractive
             THEN IF wasOnInteractive /\ s2.c.cursorElement # Null
                  THEN hideCursor(s2) ELSE s2
             ELSE handleMouseMoveTail(
                      IF ~wasOnInteractive /\ s2.c.cursorElement # Null
                      THEN applyStyles(s2) ELSE s2,
                      e, isInteractive)
        ELSE handleMouseMoveTail(handleMouseMoveReveal(s2), e, isInteractive)

\* lines 777-782
handleMouseMoveTarget(st, e) ==
    IF e.target \notin PageElements THEN st
    ELSE handleMouseMoveClassified(isInteractiveElement(st, e.target), e)

handleMouseMove(st, e) ==
    LET s0 == [st EXCEPT !.d.lastMouseEvent =
                             Def([clientX |-> e.clientX, clientY |-> e.clientY])]
    IN  IF ~s0.c.isMouseInWindow THEN s0
        ELSE handleMouseMoveTarget(handleMouseMoveReveal(s0), e)

\* relatedTarget: "" for none, "HTML" for the root element, else another node
handleMouseLeave(st, relatedTarget) ==
    IF relatedTarget = "" \/ relatedTarget = "HTML"
    THEN hideCursor([st EXCEPT !.c.isMouseInWindow = FALSE])
    ELSE st

handleMouseEnter(st) ==
    LET s1 == [st EXCEPT !.c.isMouseInWindow = TRUE]
    IN  IF s1.c.cursorElement # Null THEN applyStyles(s1) ELSE s1

handleWindowBlur(st) == hideCursor([st EXCEPT !.c.isMouseInWindow = FALSE])

handleWindowFocus(st) ==
    LET s1 == [st EXCEPT !.c.isMouseInWindow = TRUE]
    IN  IF s1.c.cursorElement # Null THEN applyStyles(s1) ELSE s1

(***************************************************************************)
(* Lifecycle Manager.                                                      *)
(***************************************************************************)
\* lines 182-189 and 883-890: what init() and the resize handler both do
suppressDefaultCursor(st) ==
    IF st.c.options.hideDefaultCursor THEN hideDefaultCursor(st) ELSE st

activate(st) ==
    suppressDefaultCursor(
        [animate(attachEventListeners(createCursorElement(st))) EXCEPT !.c.isActive = TRUE])

\* Clearing animationFrameId without cancelAnimationFrame (C3 depends on the
\* cancellation).
cancelFrameForgetting(st) == [st EXCEPT !.c.animationFrameId = Null]

\* lines 206-209 and 870-873
cancelFrame(st) ==
    IF st.c.animationFrameId # Null
    THEN [cancelAnimationFrame(st, st.c.animationFrameId) EXCEPT !.c.animationFrameId = Null]
    ELSE st

\* lines 211-215 and 875-879
restoreDefaultCursor(st) ==
    [(IF st.c.options.hideDefaultCursor THEN showDefaultCursor(st) ELSE st)
        EXCEPT !.c.isActive = FALSE]

\* A stop that only clears the flag (C7 depends on the teardown).
deactivateFlagOnly(st) == [st EXCEPT !.c.isActive = FALSE]

\* lines 867-879: the stop the resize handler performs
deactivate(st) ==
    restoreDefaultCursor(cancelFrame(removeCursorElement(removeEventListeners(st))))

init(st) ==
    IF st.c.isActive THEN st
    ELSE IF isMobileDevice(st) THEN st
    ELSE setupResizeListener(activate(st))

\* destroy() without its guard on isActive (C5 depends on the guard).
destroyUnguarded(st) ==
    restoreDefaultCursor(
        cancelFrame(
            removeCursorElement(
                removeResizeListener(
                    removeEventListeners(st)))))

destroy(st) ==
    IF ~st.c.isActive THEN st
    ELSE restoreDefaultCursor(
             cancelFrame(
                 removeCursorElement(
                     removeResizeListener(
                         removeEventListeners(st)))))

\* lines 864-893
resizeHandler(st) ==
    IF isMobileDevice(st)
    THEN IF st.c.isActive THEN deactivate(st) ELSE st
    ELSE IF ~st.c.isActive THEN activate(st) ELSE st

(***************************************************************************)
(* updateOptions.                                                          *)
(***************************************************************************)
\* lines 229-235: the fields that are only stored
storePlainOptions(st, options) ==
    LET put(b, k) == IF IsDef(options[k]) THEN [b EXCEPT ![k] = options[k][1]] ELSE b
    IN  [st EXCEPT !.c.baseOptions =
            put(put(put(put(put(put(put(@, "size"), "color"), "opacity"), "speed"),
                        "hideDefaultCursor"), "className"), "interactiveOnly")]

\* lines 236-243
storeOutlineMode(st, options) ==
    IF IsDef(options.outlineMode)
    THEN LET s1 == [st EXCEPT !.c.baseOptions.outlineMode = options.outlineMode[1]]
         IN  IF s1.c.isActive
             THEN applyStyles(createCursorElement(removeCursorElement(s1)))
             ELSE s1
    ELSE st

\* lines 244-249
storeOutlineWidth(st, options) ==
    IF IsDef(options.outlineWidth)
    THEN LET t == [st EXCEPT !.c.baseOptions.outlineWidth = options.outlineWidth[1]]
         IN  IF t.c.isActive /\ t.c.options.outlineMode THEN applyStyles(t) ELSE t
    ELSE st

\* lines 250-255
storeCenterDotColor(st, options) ==
    IF IsDef(options.centerDotColor)
    THEN LET t == [st EXCEPT !.c.baseOptions.centerDotColor = options.centerDotColor]
         IN  IF t.c.isActive /\ t.c.options.outlineMode THEN applyStyles(t) ELSE t
    ELSE st

\* lines 256-261
storeHoverColor(st, options) ==
    IF IsDef(options.hoverColor)
    THEN LET t == [st EXCEPT !.c.baseOptions.hoverColor = options.hoverColor]
         IN  IF t.c.isActive THEN applyStyles(t) ELSE t
    ELSE st

\* lines 262-267
storeCenterDotSize(st, options) ==
    IF IsDef(options.centerDotSize)
    THEN LET t == [st EXCEPT !.c.baseOptions.centerDotSize = options.centerDotSize[1]]
         IN  IF t.c.isActive /\ (t.c.options.hideDefaultCursor \/ t.c.options.outlineMode)
             THEN applyStyles(t) ELSE t
    ELSE st

\* lines 268-273
storeCenterDotHoverColor(st, options) ==
    IF IsDef(options.centerDotHoverColor)
    THEN LET t == [st EXCEPT !.c.baseOptions.centerDotHoverColor =
                                 options.centerDotHoverColor]
         IN  IF t.c.isActive /\ t.c.options.hideDefaultCursor THEN applyStyles(t) ELSE t
    ELSE st

\* lines 244-273
storeStyledOptions(st, options) ==
    storeCenterDotHoverColor(
        storeCenterDotSize(
            storeHoverColor(
                storeCenterDotColor(
                    storeOutlineWidth(st, options), options), options), options), options)

\* A merge that spreads the base options and loses the hover-effect bundle.
mergeOptionsLosingHoverEffect(st) ==
    [st EXCEPT !.c.options = st.c.baseOptions @@ [hoverEffect |-> Undefined]]

\* lines 275-278
mergeOptions(st) ==
    [st EXCEPT !.c.options =
        st.c.baseOptions @@ [hoverEffect |-> st.c.options.hoverEffect]]

\* lines 283-288 and 297-302
removeExistingCenterDots(st) ==
    removeAll(st, querySelectorAll(st.d, {"aura-cursor-center-dot"}))

\* lines 289-294
addCenterDotStyled(st) ==
    IF st.c.centerDot = Null
    THEN LET n == FreshId(st.d)
         IN  applyStyles(
                 appendChild([createElement(st, n, "div") EXCEPT
                                  !.c.centerDot = n,
                                  !.d.nodes[n].className = <<"aura-cursor-center-dot">>],
                             "body", n))
    ELSE st

\* lines 303-306 and 317-320
dropCenterDot(st) ==
    IF st.c.centerDot # Null /\ st.d.nodes[st.c.centerDot].parentNode # ""
    THEN [removeChild(st, st.c.centerDot) EXCEPT !.c.centerDot = Null]
    ELSE st

\* lines 281-307
toggleDefaultCursor(st) ==
    IF st.c.options.hideDefaultCursor /\ ~st.c.options.outlineMode
    THEN addCenterDotStyled(removeExistingCenterDots(hideDefaultCursor(st)))
    ELSE dropCenterDot(removeExistingCenterDots(showDefaultCursor(st)))

\* lines 312-316
addCursorDot(st) ==
    IF st.c.cursorDot = Null
    THEN LET n == FreshId(st.d)
         IN  appendChild([createElement(st, n, "div") EXCEPT
                              !.c.cursorDot = n,
                              !.d.nodes[n].className = <<"aura-cursor-dot">>],
                         "body", n)
    ELSE st

\* lines 323-326
dropCursorDot(st) ==
    IF st.c.cursorDot # Null /\ st.d.nodes[st.c.cursorDot].parentNode # ""
    THEN [removeChild(st, st.c.cursorDot) EXCEPT !.c.cursorDot = Null]
    ELSE st

\* lines 327-331
addCenterDot(st) ==
    IF st.c.options.hideDefaultCursor /\ st.c.centerDot = Null
    THEN LET n == FreshId(st.d)
         IN  appendChild([createElement(st, n, "div") EXCEPT
                              !.c.centerDot = n,
                              !.d.nodes[n].className = <<"aura-cursor-center-dot">>],
                         "body", n)
    ELSE st

\* lines 311-333
toggleOutlineLayers(st) ==
    IF st.c.options.outlineMode
    THEN applyStyles(dropCenterDot(addCursorDot(st)))
    ELSE applyStyles(addCenterDot(dropCursorDot(st)))

\* lines 222-224
storeHoverEffect(st, options) ==
    IF IsDef(options.hoverEffect)
    THEN [st EXCEPT !.c.options.hoverEffect = options.hoverEffect]
    ELSE st

\* lines 226-227
hideDefaultCursorChanged(st, options) ==
    /\ IsDef(options.hideDefaultCursor)
    /\ options.hideDefaultCursor[1] # st.c.baseOptions.hideDefaultCursor

\* lines 280-308
updateDefaultCursor(st, changed) == IF changed THEN toggleDefaultCursor(st) ELSE st

\* lines 310-334
updateOutlineLayers(st, options) ==
    IF IsDef(options.outlineMode) /\ st.c.isActive THEN toggleOutlineLayers(st) ELSE st

\* updateOptions() without its final applyStyles() (C11 depends on it).
restyleSkipped(st) == st

\* lines 336-338
restyle(st) == IF st.c.cursorElement # Null THEN applyStyles(st) ELSE st

updateOptions(st, options) ==
    restyle(
        updateOutlineLayers(
            updateDefaultCursor(
                mergeOptions(
                    storeStyledOptions(
                        storeOutlineMode(
                            storePlainOptions(storeHoverEffect(st, options), options),
                            options),
                        options)),
                hideDefaultCursorChanged(st, options)),
            options))

(***************************************************************************)
(* Inputs of the model.                                                    *)
(***************************************************************************)
ConstructorInputs ==
    {NoOptions,
     [NoOptions EXCEPT !.hideDefaultCursor = Def(TRUE)],
     [NoOptions EXCEPT !.outlineMode = Def(TRUE)]}

UpdateInputs ==
    {[NoOptions EXCEPT !.hideDefaultCursor = Def(TRUE)],
     [NoOptions EXCEPT !.hideDefaultCursor = Def(FALSE)],
     [NoOptions EXCEPT !.outlineMode = Def(TRUE)],
     [NoOptions EXCEPT !.outlineMode = Def(FALSE)]}

\* Pointer locations in pixels: within 50 pixels of the centre of the wide
\* viewport, further than that from the centre of the narrow one.
PointerLocations == {<<532, 384>>}

MoveTargets == {"plain", "cardText", "svg"}

RelatedTargets == {"", "HTML", "plain"}

Widths == {768, 1024}

ViewportHeight == 768

\* ontouchstart present, maxTouchPoints, userAgent.  The environment is
\* non-mobile for the mobile user agent on the wide viewport only, so that a
\* resize can take the instance across the classification both ways.
Profiles == {<<FALSE, 0, PhoneUA>>, <<TRUE, 0, DesktopUA>>, <<FALSE, 5, DesktopUA>>}

\* Layers another, uncleaned instance may have left in the document.
StrayNodes ==
    {<< >>,
     (5 :> [NewNode("div") EXCEPT !.className = <<"aura-cursor">>, !.parentNode = "body"])
       @@ (6 :> [NewNode("div") EXCEPT !.className = <<"aura-cursor-center-dot">>,
                                       !.parentNode = "body"])}

(***************************************************************************)
(* The state machine.                                                      *)
(***************************************************************************)
State == [c |-> cursor, d |-> document, w |-> window]

\* The page holds one instance only.
NoPeer == << >>

Becomes(st) ==
    LET s == Collect(st)
    IN  /\ cursor' = s.c
        /\ document' = s.d
        /\ window' = s.w
        /\ peer' = peer

\* What the last operation was, whether the instance was active before it,
\* how many init() calls in a row it ends, and which of init() and destroy()
\* the application called last.  The specifications whose properties speak
\* of the pointer also keep the last pointer-move event (move) and, right
\* after a mouseleave event, its relatedTarget (related), and right after an
\* updateOptions() call, its argument (partial).
Record(op, run) ==
    hist' = [op |-> op, wasActive |-> cursor.isActive, run |-> run,
             lastCall |-> IF op \in {"init", "destroy"} THEN op ELSE hist.lastCall,
             move |-> hist.move, related |-> Undefined, partial |-> Undefined]

RecordMove(e) ==
    hist' = [op |-> "mousemove", wasActive |-> cursor.isActive, run |-> 0,
             lastCall |-> hist.lastCall, move |-> Def(e), related |-> Undefined,
             partial |-> Undefined]

RecordLeave(relatedTarget) ==
    hist' = [op |-> "mouseleave", wasActive |-> cursor.isActive, run |-> 0,
             lastCall |-> hist.lastCall, move |-> hist.move, related |-> Def(relatedTarget),
             partial |-> Undefined]

NoHistory ==
    [op |-> "new", wasActive |-> FALSE, run |-> 0, lastCall |-> "new",
     move |-> Undefined, related |-> Undefined, partial |-> Undefined]

Init ==
    /\ \E options \in ConstructorInputs : cursor = constructor(options)
    /\ \E nodes \in StrayNodes :
           document = [nodes |-> nodes, lastMouseEvent |-> Undefined,
                       pageCursor |-> AuthorCursor]
    /\ \E p \in Profiles, width \in Widths :
           window = [innerWidth |-> width, innerHeight |-> ViewportHeight,
                     ontouchstart |-> p[1], maxTouchPoints |-> p[2], userAgent |-> p[3],
                     listeners |-> {}, frames |-> {}, frameCount |-> 0]
    /\ hist = NoHistory
    /\ peer = NoPeer

CallInit ==
    /\ hist.run < MaxInitRun
    /\ Becomes(init(State))
    /\ Record("init", hist.run + 1)

CallDestroy ==
    /\ Becomes(destroy(State))
    /\ Record("destroy", 0)

CallUpdateOptions ==
    \E options \in UpdateInputs :
        /\ Becomes(updateOptions(State, options))
        /\ Record("updateOptions", 0)

MouseMove ==
    /\ <<"window", "mousemove">> \in window.listeners
    /\ \E p \in PointerLocations, target \in MoveTargets :
           Becomes(handleMouseMove(State, [clientX |-> p[1] * PosScale,
                                           clientY |-> p[2] * PosScale,
                                           target |-> target]))
    /\ Record("mousemove", 0)

MouseLeave ==
    /\ <<"document", "mouseleave">> \in window.listeners
    /\ \E relatedTarget \in RelatedTargets : Becomes(handleMouseLeave(State, relatedTarget))
    /\ Record("mouseleave", 0)

MouseEnter ==
    /\ <<"document", "mouseenter">> \in window.listeners
    /\ Becomes(handleMouseEnter(State))
    /\ Record("mouseenter", 0)

WindowBlur ==
    /\ <<"window", "blur">> \in window.listeners
    /\ Becomes(handleWindowBlur(State))
    /\ Record("blur", 0)

WindowFocus ==
    /\ <<"window", "focus">> \in window.listeners
    /\ Becomes(handleWindowFocus(State))
    /\ Record("focus", 0)

\* The viewport changes and the window dispatches resize or orientationchange.
Resize ==
    \E width \in Widths, type \in {"resize", "orientationchange"} :
        LET st == [State EXCEPT !.w.innerWidth = width]
        IN  /\ Becomes(IF <<"window", type>> \in window.listeners
                       THEN resizeHandler(st) ELSE st)
            /\ Record("resize", 0)

\* The host runs a requested animation frame.
Tick ==
    \E n \in window.frames :
        /\ window.frameCount < MaxTicks
        /\ Becomes(animate([State EXCEPT !.w.frames = @ \ {n}, !.w.frameCount = @ + 1]))
        /\ Record("animate", 0)

Next ==
    \/ CallInit
    \/ CallDestroy
    \/ CallUpdateOptions
    \/ MouseMove
    \/ MouseLeave
    \/ MouseEnter
    \/ WindowBlur
    \/ WindowFocus
    \/ Resize
    \/ Tick

Spec == Init /\ [][Next]_vars

(***************************************************************************)
(* Actions over given inputs, for the specifications below.                *)
(***************************************************************************)
\* A desktop window without touch capability, on an empty document
DesktopInit(constructorInputs) ==
    /\ \E options \in constructorInputs : cursor = constructor(options)
    /\ document = [nodes |-> << >>, lastMouseEvent |-> Undefined,
                   pageCursor |-> AuthorCursor]
    /\ window = [innerWidth |-> 1024, innerHeight |-> ViewportHeight,
                 ontouchstart |-> FALSE, maxTouchPoints |-> 0, userAgent |-> DesktopUA,
                 listeners |-> {}, frames |-> {}, frameCount |-> 0]
    /\ hist = NoHistory
    /\ peer = NoPeer

UpdateOptionsWith(inputs) ==
    \E options \in inputs :
        /\ Becomes(updateOptions(State, options))
        /\ hist' = [op |-> "updateOptions", wasActive |-> cursor.isActive, run |-> 0,
                    lastCall |-> hist.lastCall, move |-> hist.move,
                    related |-> Undefined, partial |-> Def(options)]

PointerMove(locations, targets) ==
    /\ <<"window", "mousemove">> \in window.listeners
    /\ \E p \in locations, target \in targets :
           LET e == [clientX |-> p[1] * PosScale, clientY |-> p[2] * PosScale,
                     target |-> target]
           IN  /\ Becomes(handleMouseMove(State, e))
               /\ RecordMove(e)

PointerLeave(relatedTargets) ==
    /\ <<"document", "mouseleave">> \in window.listeners
    /\ \E relatedTarget \in relatedTargets :
           /\ Becomes(handleMouseLeave(State, relatedTarget))
           /\ RecordLeave(relatedTarget)

(***************************************************************************)
(* The look of the layers: colours, sizes and visibility on a desktop.     *)
(***************************************************************************)
GoldOnHover == [color |-> Def("gold"), opacity |-> Undefined, scale |-> Undefined]

LookConstructorInputs ==
    {NoOptions,
     [NoOptions EXCEPT !.hoverColor = Def("#00ff00")],
     [NoOptions EXCEPT !.hoverEffect = Def(GoldOnHover)],
     [NoOptions EXCEPT !.hoverColor = Def("#00ff00"), !.hoverEffect = Def(GoldOnHover)],
     [NoOptions EXCEPT !.interactiveOnly = Def(TRUE), !.hideDefaultCursor = Def(TRUE)],
     [NoOptions EXCEPT !.outlineMode = Def(TRUE)]}

LookUpdateInputs ==
    {[NoOptions EXCEPT !.size = Def(40), !.color = Def("#ff0000")],
     [NoOptions EXCEPT !.size = Def(30), !.color = Def("#0000ff")],
     [NoOptions EXCEPT !.hoverEffect = Def(GoldOnHover)]}

LookTargets == {"plain", "link", "svg"}

\* The application calls init() once.
LookCallInit == hist.lastCall = "new" /\ CallInit

LookNext ==
    \/ LookCallInit
    \/ UpdateOptionsWith(LookUpdateInputs)
    \/ PointerMove(PointerLocations, LookTargets)
    \/ PointerLeave(RelatedTargets)
    \/ MouseEnter
    \/ WindowBlur
    \/ WindowFocus
    \/ Tick

SpecLook == DesktopInit(LookConstructorInputs) /\ [][LookNext]_vars

(***************************************************************************)
(* The motion of the layers: pointer moves and animation frames on a       *)
(* desktop, for several speeds and for the three layouts.                  *)
(***************************************************************************)
\* Speeds are twentieths: 0.3 (the default), 0.5 and 1.5.
MotionConstructorInputs ==
    {NoOptions,
     [NoOptions EXCEPT !.speed = Def(10)],
     [NoOptions EXCEPT !.speed = Def(30)],
     [NoOptions EXCEPT !.outlineMode = Def(TRUE)],
     [NoOptions EXCEPT !.outlineMode = Def(TRUE), !.speed = Def(10)],
     [NoOptions EXCEPT !.hideDefaultCursor = Def(TRUE)]}

MotionUpdateInputs == {[NoOptions EXCEPT !.hideDefaultCursor = Def(TRUE)]}

\* 20 pixels and more than 50 pixels away from the centre of the viewport
MotionLocations == {<<532, 384>>, <<700, 500>>}

MotionTargets == {"plain", "svg"}

MotionNext ==
    \/ LookCallInit
    \/ UpdateOptionsWith(MotionUpdateInputs)
    \/ PointerMove(MotionLocations, MotionTargets)
    \/ Tick

SpecMotion == DesktopInit(MotionConstructorInputs) /\ [][MotionNext]_vars

(***************************************************************************)
(* Hovering: the colours of the dots and the hover-effect overrides, for   *)
(* the three layouts and interactive-only mode.                            *)
(***************************************************************************)
\* A hover-effect bundle that leaves the scale to its default
DimOnHover == [color |-> Undefined, opacity |-> Def(80), scale |-> Undefined]

DimAndGrowOnHover == [color |-> Undefined, opacity |-> Def(80), scale |-> Def(200)]

HoverConstructorInputs ==
    {[NoOptions EXCEPT !.outlineMode = Def(TRUE), !.hoverColor = Def("#00ff00")],
     [NoOptions EXCEPT !.hideDefaultCursor = Def(TRUE), !.hoverColor = Def("#00ff00")],
     [NoOptions EXCEPT !.outlineMode = Def(TRUE), !.hoverColor = Def("#00ff00"),
                       !.centerDotHoverColor = Def("#ff0000")],
     [NoOptions EXCEPT !.hideDefaultCursor = Def(TRUE), !.hoverColor = Def("#00ff00"),
                       !.centerDotHoverColor = Def("#ff0000")],
     [NoOptions EXCEPT !.hideDefaultCursor = Def(TRUE)],
     [NoOptions EXCEPT !.hoverEffect = Def(DimOnHover)],
     [NoOptions EXCEPT !.hoverEffect = Def(DimAndGrowOnHover)],
     [NoOptions EXCEPT !.hoverEffect = Def(DimAndGrowOnHover), !.interactiveOnly = Def(TRUE)]}

HoverUpdateInputs ==
    {[NoOptions EXCEPT !.size = Def(40)],
     [NoOptions EXCEPT !.opacity = Def(30)]}

HoverTargets == {"plain", "link", "cardText"}

HoverNext ==
    \/ LookCallInit
    \/ UpdateOptionsWith(HoverUpdateInputs)
    \/ PointerMove(PointerLocations, HoverTargets)

SpecHover == DesktopInit(HoverConstructorInputs) /\ [][HoverNext]_vars

(***************************************************************************)
(* A page that changes its own cursor styling while the instance runs.     *)
(***************************************************************************)
PageConstructorInputs == {NoOptions, [NoOptions EXCEPT !.hideDefaultCursor = Def(TRUE)]}

PageTargets == {"plain", "cardText", "linkText"}

\* The page sets or clears the cursor property of one of its elements.
PageRestyle ==
    \E el \in {"plain", "card"}, value \in {"", "pointer"} :
        /\ document.pageCursor[el] # value
        /\ Becomes([State EXCEPT !.d.pageCursor[el] = value])
        /\ Record("restyle", 0)

PageNext ==
    \/ LookCallInit
    \/ PointerMove(PointerLocations, PageTargets)
    \/ PageRestyle

SpecPage == DesktopInit(PageConstructorInputs) /\ [][PageNext]_vars

(***************************************************************************)
(* Reconfiguration: updateOptions() calls that between them supply every   *)
(* field of the configuration, on an inactive and on an active instance.   *)
(***************************************************************************)
ConfigConstructorInputs ==
    {NoOptions,
     [NoOptions EXCEPT !.hoverEffect = Def(DimOnHover), !.size = Def(30)]}

ConfigUpdateInputs ==
    {[NoOptions EXCEPT !.size = Def(40), !.color = Def("#ff0000"),
                       !.opacity = Def(30), !.speed = Def(10)],
     [NoOptions EXCEPT !.className = Def(<<"big">>), !.interactiveOnly = Def(TRUE)],
     [NoOptions EXCEPT !.outlineWidth = Def(4), !.centerDotColor = Def("#0000ff"),
                       !.centerDotSize = Def(5)],
     [NoOptions EXCEPT !.hoverColor = Def("#00ff00"),
                       !.centerDotHoverColor = Def("#ff0000")],
     [NoOptions EXCEPT !.hoverEffect = Def(GoldOnHover)],
     [NoOptions EXCEPT !.outlineMode = Def(FALSE)],
     [NoOptions EXCEPT !.outlineMode = Def(TRUE)],
     [NoOptions EXCEPT !.hideDefaultCursor = Def(TRUE)]}

ConfigTargets == {"plain"}

ConfigNext ==
    \/ LookCallInit
    \/ UpdateOptionsWith(ConfigUpdateInputs)
    \/ PointerMove(PointerLocations, ConfigTargets)

SpecConfig == DesktopInit(ConfigConstructorInputs) /\ [][ConfigNext]_vars

(***************************************************************************)
(* Two instances on one page.  They share the document; each has its own   *)
(* fields, its own bound listeners and its own animation frame requests,   *)
(* which the model keeps as a window record per instance.                  *)
(***************************************************************************)
Instances == {1, 2}

\* The state instance i runs in
InstanceState(i) ==
    IF i = 1 THEN State ELSE [c |-> peer.c, d |-> document, w |-> peer.w]

\* The fields of instance i
Instance(i) == InstanceState(i).c

\* The name of node n where instance i refers to it, Null where it does not
FieldName(c, n, base) ==
    IF n = c.cursorElement THEN base + 1
    ELSE IF n = c.cursorDot THEN base + 2
    ELSE IF n = c.centerDot THEN base + 3
    ELSE IF n = c.styleElement THEN base + 4
    ELSE Null

\* Collect for two instances: the host reclaims the detached nodes neither
\* instance refers to; the nodes are named after the field that refers to them
\* (1 to 4 for the first instance, 5 to 8 for the second) and the attached
\* nodes no field refers to are numbered from 9 on.
PairCollect(d, c1, c2) ==
    LET refs   == Referenced(c1) \cup Referenced(c2)
        live   == {n \in DOMAIN d.nodes : d.nodes[n].parentNode # "" \/ n \in refs}
        others == live \ refs
        name(n) == IF n = Null THEN Null
                   ELSE IF n \in Referenced(c1) THEN FieldName(c1, n, 0)
                   ELSE IF n \in Referenced(c2) THEN FieldName(c2, n, 4)
                   ELSE 8 + Cardinality({m \in others : m <= n})
        named  == {name(n) : n \in live}
        renamed(c) == [c EXCEPT !.cursorElement = name(@), !.cursorDot = name(@),
                                !.centerDot = name(@), !.styleElement = name(@)]
    IN  [d  |-> [d EXCEPT !.nodes = [k \in named |->
                                        d.nodes[CHOOSE n \in live : name(n) = k]]],
         c1 |-> renamed(c1),
         c2 |-> renamed(c2)]

\* Instance i has run to st: its fields, its listeners and frames, and the
\* shared document change; the other instance's fields stay.
PairBecomes(i, st) ==
    LET s == IF i = 1 THEN PairCollect(st.d, st.c, peer.c)
                      ELSE PairCollect(st.d, cursor, st.c)
    IN  /\ document' = s.d
        /\ cursor' = s.c1
        /\ peer' = [c |-> s.c2, w |-> IF i = 1 THEN peer.w ELSE st.w]
        /\ window' = IF i = 1 THEN st.w ELSE window

PairConstructorInputs ==
    {NoOptions,
     [NoOptions EXCEPT !.hideDefaultCursor = Def(TRUE)],
     [NoOptions EXCEPT !.outlineMode = Def(TRUE)]}

PairUpdateInputs ==
    {[NoOptions EXCEPT !.color = Def("#ff0000")],
     [NoOptions EXCEPT !.hideDefaultCursor = Def(TRUE)],
     [NoOptions EXCEPT !.outlineMode = Def(TRUE)],
     [NoOptions EXCEPT !.outlineMode = Def(FALSE)]}

DesktopWindow ==
    [innerWidth |-> 1024, innerHeight |-> ViewportHeight,
     ontouchstart |-> FALSE, maxTouchPoints |-> 0, userAgent |-> DesktopUA,
     listeners |-> {}, frames |-> {}, frameCount |-> 0]

\* new AuraCursor(a) and new AuraCursor(b) on a desktop page
PairInit ==
    /\ \E options \in PairConstructorInputs : cursor = constructor(options)
    /\ \E options \in PairConstructorInputs :
           peer = [c |-> constructor(options), w |-> DesktopWindow]
    /\ document = [nodes |-> << >>, lastMouseEvent |-> Undefined,
                   pageCursor |-> AuthorCursor]
    /\ window = DesktopWindow
    /\ hist = NoHistory

PairCallInit ==
    \E i \in Instances :
        /\ PairBecomes(i, init(InstanceState(i)))
        /\ Record("init", 0)

PairCallDestroy ==
    \E i \in Instances :
        /\ PairBecomes(i, destroy(InstanceState(i)))
        /\ Record("destroy", 0)

PairCallUpdateOptions ==
    \E i \in Instances, options \in PairUpdateInputs :
        /\ PairBecomes(i, updateOptions(InstanceState(i), options))
        /\ Record("updateOptions", 0)

PairNext ==
    \/ PairCallInit
    \/ PairCallDestroy
    \/ PairCallUpdateOptions

SpecPair == PairInit /\ [][PairNext]_vars

(***************************************************************************)
(* Vocabulary of the properties.                                           *)
(***************************************************************************)
\* The environment is mobile: touch capability, or a small viewport together
\* with a mobile user agent.
MobileEnvironment ==
    \/ window.ontouchstart
    \/ window.maxTouchPoints > 0
    \/ (window.innerWidth <= 768 /\ window.userAgent = PhoneUA)

\* The attached elements carrying class cls
Layers(cls) == querySelectorAll(document, {cls})

\* The inline style of the primary layer
PrimaryStyle == document.nodes[cursor.cursorElement].style

SuppressionInstalled ==
    \E n \in DOMAIN document.nodes :
        document.nodes[n].parentNode # "" /\ document.nodes[n].textContent = SuppressionRule

\* The last operation was an init() that made the instance active.
InitActivated == hist.op = "init" /\ ~hist.wasActive /\ cursor.isActive

\* The configuration is the default one.
DefaultConfig ==
    /\ cursor.baseOptions = constructor(NoOptions).baseOptions
    /\ cursor.options = constructor(NoOptions).options

\* What an automatic stop or a destroy() leaves of an active instance
Stopped ==
    /\ ~cursor.isActive
    /\ querySelectorAll(document, MarkerClasses) = {}
    /\ window.listeners \cap InputListeners = {}
    /\ window.frames = {}
    /\ cursor.animationFrameId = Null
    /\ ~SuppressionInstalled

\* What an activation establishes
Running ==
    /\ cursor.isActive
    /\ cursor.cursorElement # Null
    /\ Layers("aura-cursor") = {cursor.cursorElement}
    /\ (Layers("aura-cursor-dot") # {}) = cursor.options.outlineMode
    /\ (Layers("aura-cursor-center-dot") # {}) =
           (cursor.options.hideDefaultCursor /\ ~cursor.options.outlineMode)
    /\ InputListeners \subseteq window.listeners
    /\ cursor.animationFrameId \in window.frames

\* The instance has just been stopped by its resize handler.
AutoStopped == hist.op = "resize" /\ hist.wasActive /\ ~cursor.isActive

(***************************************************************************)
(* Properties.                                                             *)
(***************************************************************************)
\* C1: after init() has been called one or more times in a row in a
\* non-mobile environment, exactly one element of class aura-cursor is in the
\* document.
C1_OnePrimaryLayerAfterInit ==
    (hist.op = "init" /\ ~MobileEnvironment) => Cardinality(Layers("aura-cursor")) = 1

\* init() called again on the instance it had made active: still one layer
C1_Witness ==
    /\ hist.op = "init" /\ hist.run >= 2 /\ hist.wasActive
    /\ ~MobileEnvironment
    /\ Cardinality(Layers("aura-cursor")) = 1

\* C2: after destroy() on an active instance no element carrying one of the
\* three marker classes is left in the document, whatever pointer events,
\* ticks and updateOptions() calls came in between.
C2_NoLayerAfterDestroy ==
    (hist.op = "destroy" /\ hist.wasActive) => querySelectorAll(document, MarkerClasses) = {}

\* destroy() on an instance that had run frames and seen the pointer
C2_Witness ==
    /\ hist.op = "destroy" /\ hist.wasActive
    /\ window.frameCount > 0 /\ IsDef(document.lastMouseEvent)
    /\ querySelectorAll(document, MarkerClasses) = {}

\* C3: destroy() on an active instance cancels the pending animation frame,
\* and no tick runs while the instance stays inactive after it.
C3_NoFrameAfterDestroy ==
    (hist.lastCall = "destroy" /\ ~cursor.isActive) =>
        /\ window.frames = {}
        /\ cursor.animationFrameId = Null
        /\ hist.op # "animate"

\* destroy() on an active instance, whose frame was pending
C3_Witness ==
    /\ hist.op = "destroy" /\ hist.wasActive
    /\ window.frames = {} /\ cursor.animationFrameId = Null

\* C4: after destroy() every listener is detached, the resize watcher
\* included, and the instance stays inactive, whatever came before the
\* destroy() (an automatic mobile stop included).
C4_DetachedAfterDestroy ==
    hist.lastCall = "destroy" => (window.listeners = {} /\ ~cursor.isActive)

\* C5: destroy() on an inactive instance changes nothing: fields, layers,
\* listeners and suppression style stay as they are (so destroy(); destroy()
\* is destroy()).
C5_DestroyInactiveIsNoOp ==
    [][(hist'.op = "destroy" /\ ~cursor.isActive) =>
          (cursor' = cursor /\ document' = document /\ window' = window)]_vars

\* destroy() on an instance its resize handler had stopped
C5_Witness ==
    /\ hist.op = "destroy" /\ ~hist.wasActive
    /\ cursor.resizeHandler # Null
    /\ ResizeListeners \subseteq window.listeners

\* C6: in a mobile environment init() changes nothing.
C6_InitMobileIsNoOp ==
    [][(hist'.op = "init" /\ MobileEnvironment) =>
          (cursor' = cursor /\ document' = document /\ window' = window
           /\ ~cursor'.isActive)]_vars

\* init() on a small screen with a mobile user agent and no touch capability
C6_Witness ==
    /\ hist.op = "init" /\ MobileEnvironment
    /\ ~window.ontouchstart /\ window.maxTouchPoints = 0
    /\ ~cursor.isActive /\ window.listeners = {}

\* C7: a resize that finds an active instance in a mobile environment stops
\* it (layers removed, input listeners detached, frame cancelled, default
\* pointer restored); the next resize, finding the environment non-mobile,
\* makes it active again with its layers, without any call from outside.
C7_ResizeStopsAndRestarts ==
    [][/\ (hist'.op = "resize" /\ cursor.isActive /\ MobileEnvironment') => Stopped'
       /\ (hist'.op = "resize" /\ AutoStopped /\ ~MobileEnvironment') => Running']_vars

\* the resize handler has made a stopped instance active again
C7_Witness ==
    /\ hist.op = "resize" /\ ~hist.wasActive
    /\ Running

\* C8: the mobile classification is evaluated again on every resize that
\* follows an init() call, also one that did nothing because the environment
\* was mobile: a resize in a non-mobile environment leaves the instance
\* active (destroy() not having been called since).
C8_ResizeAfterInitActivates ==
    (hist.op = "resize" /\ hist.lastCall = "init" /\ ~MobileEnvironment) => cursor.isActive

\* C9: with the default configuration the primary layer is 20px wide and
\* high, black and of opacity 0 right after init(), and of opacity 0.5 after
\* a pointer move delivered while the pointer is in the window.
C9_DefaultLayerRevealedByMove ==
    DefaultConfig =>
        /\ InitActivated =>
               /\ PrimaryStyle.width = "20px" /\ PrimaryStyle.height = "20px"
               /\ PrimaryStyle.backgroundColor = "rgb(0, 0, 0)"
               /\ PrimaryStyle.opacity = "0"
        /\ (hist.op = "mousemove" /\ cursor.isMouseInWindow) => PrimaryStyle.opacity = "0.5"

\* a pointer move has revealed the default layer
C9_Witness ==
    /\ DefaultConfig
    /\ hist.op = "mousemove" /\ cursor.isMouseInWindow
    /\ PrimaryStyle.opacity = "0.5" /\ PrimaryStyle.width = "20px"

\* C10: right after an init() without an opacity option, and before any
\* pointer event, the opacity applied to the primary layer is 0.5.
C10_OpacityAppliedByInit ==
    (InitActivated /\ cursor.baseOptions.opacity = DefaultOpacity) =>
        PrimaryStyle.opacity = "0.5"

(***************************************************************************)
(* Vocabulary of the properties on the look of the layers.                 *)
(***************************************************************************)
\* The strings a size and a colour are read back as from an inline style
ExpectedPx(size) ==
    CASE size = 20 -> "20px"
      [] size = 30 -> "30px"
      [] size = 40 -> "40px"

ExpectedRgb(color) ==
    CASE color = "#000000" -> "rgb(0, 0, 0)"
      [] color = "#ff0000" -> "rgb(255, 0, 0)"
      [] color = "#00ff00" -> "rgb(0, 255, 0)"
      [] color = "#0000ff" -> "rgb(0, 0, 255)"
      [] color = "gold" -> "gold"

\* A hover colour applies: hoverColor in hover state, or the colour of the
\* hover-effect bundle while the pointer flag is set.
HoverColorApplies ==
    \/ /\ cursor.isHoveringInteractive \/ cursor.isPointer
       /\ TruthyStr(cursor.baseOptions.hoverColor)
    \/ /\ cursor.isPointer
       /\ IsDef(cursor.options.hoverEffect)
       /\ TruthyStr(cursor.options.hoverEffect[1].color)

\* The hover colour that applies: hoverColor where configured, otherwise the
\* colour of the hover-effect bundle.
AppliedHoverColor ==
    IF TruthyStr(cursor.baseOptions.hoverColor)
    THEN cursor.baseOptions.hoverColor[1]
    ELSE cursor.options.hoverEffect[1].color[1]

\* A step of updateOptions({size: S, color: C}) on an active instance out of
\* outline mode, whatever the size and the colour were before
SizeAndColorUpdated ==
    /\ hist'.op = "updateOptions"
    /\ cursor.isActive /\ ~cursor.options.outlineMode
    /\ IsDef(hist'.partial)
    /\ IsDef(hist'.partial[1].size) /\ IsDef(hist'.partial[1].color)

\* The size S and the colour C of the call
UpdatedSize == hist.partial[1].size[1]

UpdatedColor == hist.partial[1].color[1]

\* C11, as the code has it: after updateOptions({size: S, color: C}) on an
\* active non-outline instance the primary layer is S px wide and high,
\* whatever the size and the colour were before; its background colour is
\* the hover colour where a hover colour applies (hoverColor in hover state,
\* otherwise hoverEffect.color while the pointer flag is set), and C where
\* none does.
C11_SizeAndColorApplied ==
    [][SizeAndColorUpdated =>
          /\ PrimaryStyle'.width = ExpectedPx(UpdatedSize')
          /\ PrimaryStyle'.height = ExpectedPx(UpdatedSize')
          /\ PrimaryStyle'.backgroundColor =
                 IF HoverColorApplies' THEN ExpectedRgb(AppliedHoverColor')
                                       ELSE ExpectedRgb(UpdatedColor')]_vars

\* updateOptions({size: 40, color: '#ff0000'}) has replaced a size and a
\* colour that an earlier update had set
C11_Witness ==
    /\ hist.op = "updateOptions" /\ hist.wasActive /\ ~cursor.options.outlineMode
    /\ IsDef(hist.partial) /\ hist.partial[1].size = Def(40)
    /\ hist.partial[1].color = Def("#ff0000")
    /\ cursor.baseOptions.size = 40 /\ cursor.baseOptions.color = "#ff0000"
    /\ PrimaryStyle.width = "40px" /\ PrimaryStyle.backgroundColor = "rgb(255, 0, 0)"
    /\ window.frameCount > 0

\* C11, as stated: after updateOptions({size: S, color: C}) on an active
\* non-outline instance the primary layer is S px wide and high and its
\* background colour is C, whatever they were before.
C11_SizeAndColorAlwaysApplied ==
    [][SizeAndColorUpdated =>
          /\ PrimaryStyle'.width = ExpectedPx(UpdatedSize')
          /\ PrimaryStyle'.height = ExpectedPx(UpdatedSize')
          /\ PrimaryStyle'.backgroundColor = ExpectedRgb(UpdatedColor')]_vars

\* The elements of the page that are interactive: links, buttons, elements
\* of role button or with a click handler, checkboxes, elements the page gives
\* a pointer cursor, and what they contain.
InteractiveTargets ==
    {"link", "linkText", "card", "cardText", "roleButton", "button", "checkbox",
     "clickable"}

\* Every layer in the document has opacity 0.
AllLayersHidden ==
    \A n \in querySelectorAll(document, MarkerClasses) : document.nodes[n].style.opacity = "0"

\* C12: in interactive-only mode, after a pointer move that targeted a
\* non-interactive element every existing layer has opacity 0.
C12_HiddenOffInteractive ==
    (/\ hist.op = "mousemove"
     /\ cursor.isActive /\ cursor.options.interactiveOnly
     /\ hist.move[1].target \notin InteractiveTargets) => AllLayersHidden

\* C13: right after a window blur event, or a document mouseleave event
\* whose relatedTarget is absent or the HTML root, every existing layer
\* (primary, inner dot, center dot) has opacity 0 and the mouse-in-window
\* flag is false.
C13_HiddenOnLeaveOrBlur ==
    (\/ hist.op = "blur"
     \/ (hist.op = "mouseleave" /\ hist.related[1] \in {"", "HTML"}))
        => (AllLayersHidden /\ ~cursor.isMouseInWindow)

\* the pointer has left through the HTML root an outline cursor that had
\* followed it for a frame
C13_Witness ==
    /\ hist.op = "mouseleave" /\ hist.related = Def("HTML")
    /\ Layers("aura-cursor") # {} /\ Layers("aura-cursor-dot") # {}
    /\ IsDef(hist.move) /\ window.frameCount > 0
    /\ AllLayersHidden /\ ~cursor.isMouseInWindow

\* C14: layers hidden because the pointer left the window or the window lost
\* focus stay at opacity 0 until the next mouseenter or focus event (the
\* mouse-in-window flag is false exactly in between): no tick, no pointer
\* move and no updateOptions() call makes a layer visible.
C14_HiddenUntilEnterOrFocus ==
    (cursor.isActive /\ ~cursor.isMouseInWindow) => AllLayersHidden

\* The instance is in hover state: its last classification found the pointer
\* over an interactive element.
Hovering == cursor.isHoveringInteractive \/ cursor.isPointer

\* The colour the precedence of C20 gives the primary layer
ColorByPrecedence ==
    IF Hovering /\ TruthyStr(cursor.baseOptions.hoverColor)
    THEN cursor.baseOptions.hoverColor[1]
    ELSE IF /\ Hovering
            /\ IsDef(cursor.options.hoverEffect)
            /\ TruthyStr(cursor.options.hoverEffect[1].color)
         THEN cursor.options.hoverEffect[1].color[1]
         ELSE cursor.baseOptions.color

\* The primary layer shows the colour: as its background, or as its border
\* in outline mode
PrimaryShows(color) ==
    IF cursor.options.outlineMode
    THEN PrimaryStyle.border = "2px solid " \o ExpectedRgb(color)
    ELSE PrimaryStyle.backgroundColor = ExpectedRgb(color)

\* C20: for every combination of hover state and configured colours, the
\* colour applied to the primary layer is hoverColor when hovering with
\* hoverColor configured, otherwise hoverEffect.color when hovering with that
\* override configured, otherwise the base colour.
C20_ColorPrecedence ==
    (cursor.isActive /\ cursor.cursorElement # Null) => PrimaryShows(ColorByPrecedence)

\* The last step delivered a pointer-move event to an active instance.
MoveDelivered == hist.op = "mousemove" /\ hist.wasActive /\ IsDef(hist.move)

\* C15: after every pointer-move event delivered while the instance is
\* active, the target position equals the client coordinates of that event.
C15_TargetFollowsEveryMove ==
    MoveDelivered =>
        /\ cursor.targetX = hist.move[1].clientX
        /\ cursor.targetY = hist.move[1].clientY

\* The last step ran an animation frame.
Ticked == hist.op = "animate"

\* The centre of the viewport, where the layers are seeded
SeedX == (window.innerWidth * PosScale) \div 2

\* The factor C16 states for a tick of the primary layer, in twentieths
EaseOfLayer ==
    IF Far(cursor.targetX - cursor.currentX, cursor.targetY - cursor.currentY)
    THEN Min(2 * cursor.options.speed, SpeedCap)
    ELSE cursor.options.speed

LayerTick == Ticked' /\ ~cursor.options.outlineMode

\* C16: outside outline mode a tick moves the displayed position D0 to
\* D0 + (P - D0) * e on both axes, where P is the target, e is the speed s
\* when the distance is at most 50 pixels and min(2s, 0.8) when it is more,
\* and leaves the target unchanged.
C16_TickEases ==
    [][LayerTick =>
          /\ 20 * (cursor'.currentX - cursor.currentX)
                 = (cursor.targetX - cursor.currentX) * EaseOfLayer
          /\ 20 * (cursor'.currentY - cursor.currentY)
                 = (cursor.targetY - cursor.currentY) * EaseOfLayer
          /\ PrimaryStyle'.left = PosPx(cursor'.currentX)
          /\ PrimaryStyle'.top = PosPx(cursor'.currentY)
          /\ cursor'.targetX = cursor.targetX
          /\ cursor'.targetY = cursor.targetY]_vars

\* A tick has moved the primary layer part of the way to the target.
C16_Witness ==
    /\ Ticked
    /\ cursor.isActive
    /\ ~cursor.options.outlineMode
    /\ cursor.currentX # SeedX
    /\ cursor.currentX # cursor.targetX
    /\ PrimaryStyle.left = PosPx(cursor.currentX)

\* The position the primary layer is displayed at
DisplayedX == IF cursor.options.outlineMode THEN cursor.outlineCircleX ELSE cursor.currentX

DisplayedY == IF cursor.options.outlineMode THEN cursor.outlineCircleY ELSE cursor.currentY

\* A step from x to x2 applies to (target - x) a factor in (0, 0.8]: it moves
\* towards the target, by at most SpeedCap twentieths of the way.
StepWithinCap(x, x2, target) ==
    /\ (target > x) => (x2 > x /\ 20 * (x2 - x) <= SpeedCap * (target - x))
    /\ (target < x) => (x2 < x /\ 20 * (x - x2) <= SpeedCap * (x - target))
    /\ (target = x) => (x2 = x)

\* C17: in every animate tick the interpolation factor applied to
\* (target - displayed) lies in (0, 0.8], for every speed the engine accepts,
\* so the displayed position never passes the target.
C17_FactorWithinCap ==
    [][Ticked' =>
          /\ StepWithinCap(DisplayedX, DisplayedX', cursor.targetX)
          /\ StepWithinCap(DisplayedY, DisplayedY', cursor.targetY)]_vars

\* The step is a pointer move in outline mode that reaches the position
\* update of the handler: the pointer is in the window, the target is an
\* element of the page and, in interactive-only mode, an interactive one.
OutlineMoveApplied ==
    /\ hist'.op = "mousemove"
    /\ cursor.isActive
    /\ cursor.options.outlineMode
    /\ cursor.cursorDot # Null
    /\ cursor.isMouseInWindow
    /\ hist'.move[1].target \in PageElements
    /\ cursor.options.interactiveOnly => hist'.move[1].target \in InteractiveTargets

OutlineTick == Ticked' /\ cursor.options.outlineMode

\* 20 * (ring' - ring) = (target - ring) * e, with e = s / 2 within 50 pixels
\* and min(s, 0.8) beyond
RingEases(ring, ring2, target) ==
    IF Far(cursor.targetX - cursor.outlineCircleX, cursor.targetY - cursor.outlineCircleY)
    THEN 20 * (ring2 - ring) = (target - ring) * Min(cursor.options.speed, SpeedCap)
    ELSE 40 * (ring2 - ring) = (target - ring) * cursor.options.speed

\* C18: in outline mode, after a pointer move that reaches the position
\* update the inner dot is placed at the coordinates of the event, with no
\* interpolation, while a tick moves the outer ring by (target - ring) * e,
\* with e = s/2 when the distance is at most 50 and min(s, 0.8) when it is more.
C18_DotSnapsRingTrails ==
    [][/\ OutlineMoveApplied =>
              /\ cursor'.centerDotX = hist'.move[1].clientX
              /\ cursor'.centerDotY = hist'.move[1].clientY
              /\ document'.nodes[cursor'.cursorDot].style.left = PosPx(hist'.move[1].clientX)
              /\ document'.nodes[cursor'.cursorDot].style.top = PosPx(hist'.move[1].clientY)
       /\ OutlineTick =>
              /\ RingEases(cursor.outlineCircleX, cursor'.outlineCircleX, cursor.targetX)
              /\ RingEases(cursor.outlineCircleY, cursor'.outlineCircleY, cursor.targetY)
              /\ PrimaryStyle'.left = PosPx(cursor'.outlineCircleX)
              /\ PrimaryStyle'.top = PosPx(cursor'.outlineCircleY)]_vars

\* A tick has moved the ring part of the way to a target the inner dot
\* already sits on, away from the seed.
C18_Witness ==
    /\ Ticked
    /\ cursor.isActive
    /\ cursor.options.outlineMode
    /\ cursor.outlineCircleX # SeedX
    /\ cursor.outlineCircleX # cursor.targetX
    /\ cursor.centerDotX = cursor.targetX
    /\ cursor.cursorDot # Null
    /\ document.nodes[cursor.cursorDot].style.left = PosPx(cursor.targetX)
    /\ IsDef(hist.move)
    /\ hist.move[1].clientX = cursor.targetX

\* The element n is placed at the target position.
PlacedAtTarget(n) ==
    /\ document.nodes[n].style.left = PosPx(cursor.targetX)
    /\ document.nodes[n].style.top = PosPx(cursor.targetY)

\* C19: whenever a center dot or an inner dot exists on an active instance,
\* the position it is placed at equals the target position, the last recorded
\* pointer location.
C19_DotsAtTarget ==
    cursor.isActive =>
        /\ cursor.centerDot # Null => PlacedAtTarget(cursor.centerDot)
        /\ cursor.cursorDot # Null => PlacedAtTarget(cursor.cursorDot)

\* The colour C21 gives a dot while hovering, centerDotColor not configured
DotHoverColor ==
    IF TruthyStr(cursor.baseOptions.centerDotHoverColor)
    THEN cursor.baseOptions.centerDotHoverColor[1]
    ELSE IF TruthyStr(cursor.baseOptions.hoverColor)
         THEN cursor.baseOptions.hoverColor[1]
         ELSE cursor.baseOptions.color

\* The dot the layout shows: the inner dot of outline mode, or the center dot
\* of hide-default-cursor mode (Null when the layout shows none)
ShownDot ==
    IF cursor.options.outlineMode THEN cursor.cursorDot
    ELSE IF cursor.options.hideDefaultCursor THEN cursor.centerDot
    ELSE Null

\* C21: while hovering an interactive element with centerDotColor not
\* configured, the inner dot of outline mode and the center dot of
\* hide-default-cursor mode both take centerDotHoverColor when configured,
\* otherwise the shared hoverColor when configured, otherwise the base colour.
C21_DotsResolveColorAlike ==
    (/\ cursor.isActive
     /\ Hovering
     /\ ~TruthyStr(cursor.baseOptions.centerDotColor)
     /\ ShownDot # Null)
        => document.nodes[ShownDot].style.backgroundColor = ExpectedRgb(DotHoverColor)

\* The last step was a pointer move over an interactive element.
MovedOverInteractive ==
    MoveDelivered /\ hist.move[1].target \in InteractiveTargets

\* C22: when the pointer is over an interactive element and a hover-effect
\* bundle is configured that does not specify scale, the primary layer is
\* scaled by the default hover scale 1.5.
C22_DefaultHoverScale ==
    (/\ MovedOverInteractive
     /\ cursor.cursorElement # Null
     /\ IsDef(cursor.options.hoverEffect)
     /\ ~IsDef(cursor.options.hoverEffect[1].scale))
        => PrimaryStyle.transform = "translate(-50%, -50%) scale(1.5)"

\* The last step was an updateOptions() that restyled the primary layer, the
\* most recent pointer move having targeted a non-interactive element.
RestyledOffInteractive ==
    /\ hist.op = "updateOptions"
    /\ cursor.isActive
    /\ cursor.cursorElement # Null
    /\ IsDef(hist.move)
    /\ hist.move[1].target \in PageElements \ InteractiveTargets

\* C23: the hover-effect opacity and scale apply only while the pointer is
\* over an interactive element: whenever the most recent pointer move
\* targeted a non-interactive element, a restyle applies the base opacity and
\* scale 1 to the primary layer, in every mode including interactive-only.
C23_BaseLookOffInteractive ==
    RestyledOffInteractive =>
        /\ PrimaryStyle.opacity = StringOf(cursor.baseOptions.opacity)
        /\ PrimaryStyle.transform = "translate(-50%, -50%) scale(1)"

\* The element and its ancestors below the body
RECURSIVE SelfAndAncestors(_)
SelfAndAncestors(el) ==
    IF el = "body" THEN {} ELSE {el} \cup SelfAndAncestors(parentElement(el))

\* The cursor the page's own styling computes for an element: its own value,
\* or the one it inherits
RECURSIVE PageComputedCursor(_)
PageComputedCursor(el) ==
    IF el = "body" THEN "auto"
    ELSE IF document.pageCursor[el] # "" THEN document.pageCursor[el]
    ELSE IF UserAgentCursor(el) # "" THEN UserAgentCursor(el)
    ELSE PageComputedCursor(parentElement(el))

\* An anchor, a button, role="button", an onclick handler, or a range, color
\* or checkbox input
ClickableByMarkup(el) ==
    \/ tagName(el) = "A"
    \/ tagName(el) = "BUTTON"
    \/ roleAttribute(el) = Def("button")
    \/ hasOnclick(el)
    \/ (tagName(el) = "INPUT" /\ inputType(el) \in {"range", "color", "checkbox"})

\* The conditions of C24
MeetsInteractiveCondition(el) ==
    \/ \E a \in SelfAndAncestors(el) : ClickableByMarkup(a)
    \/ \E a \in SelfAndAncestors(el) : PageComputedCursor(a) = "pointer"

\* What the classifier returns for an element in the current state
Classified(el) == isInteractiveElement(State, el).result

ClassifiedBeforeSuppression(el) ==
    isInteractiveElement([State EXCEPT !.c.pointerElementsCache = << >>,
                                       !.c.styleElement = Null,
                                       !.d.nodes = << >>], el).result

\* C25: for a page whose own styling does not change, the classification of
\* an element is the same before global cursor suppression is enabled, while
\* it is enabled and after it is disabled again, and every install or removal
\* of the suppression style leaves the interactivity cache empty.
C25_SameAcrossSuppression ==
    /\ [](\A el \in PageElements : Classified(el) = ClassifiedBeforeSuppression(el))
    /\ [][(SuppressionInstalled' # SuppressionInstalled)
              => cursor'.pointerElementsCache = << >>]_vars

\* A pointer move has classified an element while the suppression style is
\* installed, and cached the pointer cursor the page gives it.
C25_Witness ==
    /\ hist.op = "mousemove"
    /\ cursor.isActive
    /\ SuppressionInstalled
    /\ "cardText" \in DOMAIN cursor.pointerElementsCache
    /\ cursor.pointerElementsCache["cardText"]
    /\ "plain" \in DOMAIN cursor.pointerElementsCache
    /\ Classified("cardText")

\* What a classifier that uses no cache returns for an element
ClassifiedUncached(el) ==
    isInteractiveElement([State EXCEPT !.c.pointerElementsCache = << >>], el).result

\* C26: the classifier's result is a function of the DOM styling and
\* structure at call time: whatever classifier calls and changes to the
\* elements' cursor styling came before inside one suppression epoch, the
\* cached classifier returns what a classifier that uses no cache returns.
C26_CacheIsTransparent ==
    \A el \in PageElements : Classified(el) = ClassifiedUncached(el)

\* The fields of the configuration that always hold a value, and those that
\* may be undefined
RequiredFields ==
    {"size", "color", "opacity", "speed", "hideDefaultCursor", "className",
     "interactiveOnly", "outlineMode", "outlineWidth", "centerDotSize"}

OptionalFields == {"centerDotColor", "hoverColor", "centerDotHoverColor", "hoverEffect"}

\* The value of field f after merging partial into the configuration prior
MergedField(prior, partial, f) ==
    IF ~IsDef(partial[f]) THEN prior[f]
    ELSE IF f \in RequiredFields THEN partial[f][1]
    ELSE partial[f]

\* The step is an updateOptions() call.
Updating == hist'.op = "updateOptions" /\ IsDef(hist'.partial)

\* C27: updateOptions(partial) carries forward the prior value of every
\* top-level configuration field that partial does not supply, and sets each
\* supplied field to the supplied value, on an active and on an inactive
\* instance.
C27_MergeFieldByField ==
    [][Updating =>
          /\ DOMAIN cursor'.options = RequiredFields \cup OptionalFields
          /\ \A f \in RequiredFields \cup OptionalFields :
                 cursor'.options[f] = MergedField(cursor.options, hist'.partial[1], f)
          /\ \A f \in DOMAIN cursor.baseOptions :
                 cursor'.baseOptions[f] = MergedField(cursor.baseOptions, hist'.partial[1], f)]_vars

\* An updateOptions() call on an active instance has supplied some fields and
\* left others, set by the constructor and by earlier calls, as they were.
C27_Witness ==
    /\ hist.op = "updateOptions"
    /\ IsDef(hist.partial)
    /\ cursor.isActive
    /\ IsDef(hist.partial[1].className)
    /\ cursor.options.className = <<"big">>
    /\ cursor.options.size = 40
    /\ cursor.options.hoverEffect = Def(DimOnHover)
    /\ cursor.options.hoverColor = Def("#00ff00")

\* The step is an updateOptions() call that changes neither the value of
\* outlineMode nor that of hideDefaultCursor.
UpdatingWithinLayout ==
    /\ Updating
    /\ MergedField(cursor.options, hist'.partial[1], "outlineMode") = cursor.options.outlineMode
    /\ MergedField(cursor.options, hist'.partial[1], "hideDefaultCursor")
           = cursor.options.hideDefaultCursor

\* The displayed, inner-dot and target positions
Positions ==
    <<cursor.currentX, cursor.currentY, cursor.outlineCircleX, cursor.outlineCircleY,
      cursor.centerDotX, cursor.centerDotY, cursor.targetX, cursor.targetY>>

\* The layer elements the instance holds and those attached to the document
LayerElements ==
    <<cursor.cursorElement, cursor.cursorDot, cursor.centerDot,
      querySelectorAll(document, MarkerClasses)>>

\* C28: an updateOptions() call that does not change the value of outlineMode
\* or of hideDefaultCursor triggers only a restyle: it adds, removes or
\* replaces no layer element and changes none of the displayed, inner-dot and
\* target positions.
C28_RestyleOnly ==
    [][UpdatingWithinLayout => (LayerElements' = LayerElements /\ Positions' = Positions)]_vars

\* C29: while the instance is active, the global cursor-suppression style is
\* installed in the document exactly when the configuration's
\* hideDefaultCursor is true, in outline mode as well as in filled mode.
C29_SuppressionMatchesOption ==
    cursor.isActive => (SuppressionInstalled <=> cursor.options.hideDefaultCursor)

\* The layers of marker class cls attached to the document are exactly the one
\* the field refers to (layer), or none when there should be none.
ExactlyLayer(cls, layer, wanted) ==
    IF wanted
    THEN layer # Null /\ Layers(cls) = {layer}
    ELSE Layers(cls) = {}

\* C30: while the instance is active, the layers present in the document match
\* the configuration: the primary layer always, the inner dot exactly when
\* outlineMode is true, and the center dot exactly when hideDefaultCursor is
\* true and outlineMode is false, each at most once.
C30_LayersMatchConfiguration ==
    cursor.isActive =>
        /\ ExactlyLayer("aura-cursor", cursor.cursorElement, TRUE)
        /\ ExactlyLayer("aura-cursor-dot", cursor.cursorDot, cursor.options.outlineMode)
        /\ ExactlyLayer("aura-cursor-center-dot", cursor.centerDot,
                        cursor.options.hideDefaultCursor /\ ~cursor.options.outlineMode)

\* The elements the instance created and still refers to that are attached
\* to the document: its layers and its suppression style
OwnAttached ==
    {n \in Referenced(cursor) : document.nodes[n].parentNode # ""}

\* C31: whenever the instance is inactive (before init, after destroy or after
\* an automatic mobile stop) it has no host mutation in place: no layer it
\* created is in the document and its suppression style is not installed; in
\* particular updateOptions() on an inactive instance changes only the stored
\* configuration.
C31_InactiveLeavesNoTrace ==
    ~cursor.isActive => OwnAttached = {}

\* The suppression style is installed in document d.
SuppressedIn(d) ==
    \E n \in DOMAIN d.nodes :
        d.nodes[n].parentNode # "" /\ d.nodes[n].textContent = SuppressionRule

\* C32: a classifier call leaves the suppression state unchanged: if the
\* suppression style was installed before the call it is installed again when
\* the call returns, and if it was not it is still not, for every element and
\* cache content.
C32_ClassifierKeepsSuppression ==
    \A el \in PageElements :
        SuppressedIn(isInteractiveElement(State, el).st.d) <=> SuppressedIn(document)

\* The classifier is asked about an element that is not cached while the
\* suppression style hides every cursor: it reads the style with the
\* suppression detached, caches the result and returns with it installed.
C32_Witness ==
    /\ cursor.isActive
    /\ SuppressionInstalled
    /\ cursor.options.hideDefaultCursor
    /\ "cardText" \notin DOMAIN cursor.pointerElementsCache
    /\ LET r == isInteractiveElement(State, "cardText")
       IN  /\ r.result
           /\ "cardText" \in DOMAIN r.st.c.pointerElementsCache
           /\ SuppressedIn(r.st.d)

\* The last step made the instance active: an init() call, or the resize
\* handler restarting it.
Activated == hist.op \in {"init", "resize"} /\ ~hist.wasActive /\ cursor.isActive

\* The point an activation starts from: the last pointer-move event observed,
\* or the centre of the viewport
SeedPoint ==
    IF IsDef(document.lastMouseEvent)
    THEN <<document.lastMouseEvent[1].clientX, document.lastMouseEvent[1].clientY>>
    ELSE <<(window.innerWidth * PosScale) \div 2, (window.innerHeight * PosScale) \div 2>>

\* C33: on every activation (init or automatic restart) the displayed
\* position, the outline-ring position, the inner/center-dot position and the
\* target position are all set to the same point: the coordinates of the last
\* pointer-move event observed, or the viewport centre when none was observed.
C33_ActivationSeedsPositions ==
    Activated =>
        /\ <<cursor.currentX, cursor.currentY>> = SeedPoint
        /\ <<cursor.outlineCircleX, cursor.outlineCircleY>> = SeedPoint
        /\ <<cursor.centerDotX, cursor.centerDotY>> = SeedPoint
        /\ <<cursor.targetX, cursor.targetY>> = SeedPoint

\* The resize handler has restarted the instance after a pointer move was
\* observed away from the centre of the viewport.
C33_Witness ==
    /\ hist.op = "resize"
    /\ Activated
    /\ IsDef(document.lastMouseEvent)
    /\ cursor.currentX = document.lastMouseEvent[1].clientX
    /\ cursor.currentX # (window.innerWidth * PosScale) \div 2

\* C34: at every point between events exactly one animation-frame request is
\* pending when the instance is active and none when it is inactive: ticks
\* never overlap and a second frame loop is never started.
C34_OneFrameLoop ==
    IF cursor.isActive
    THEN window.frames = {cursor.animationFrameId} /\ cursor.animationFrameId # Null
    ELSE window.frames = {} /\ cursor.animationFrameId = Null

\* The last tick the bound allows has run and requested the next frame, a
\* pointer move having been observed.
C34_Witness ==
    /\ hist.op = "animate"
    /\ hist.lastCall = "init"
    /\ cursor.isActive
    /\ window.frameCount = MaxTicks
    /\ Cardinality(window.frames) = 1
    /\ IsDef(document.lastMouseEvent)

\* The operations that are handlers of the five input listeners
InputOps == {"mousemove", "mouseleave", "mouseenter", "blur", "focus"}

\* C35: the five input listeners (mousemove, mouseleave, mouseenter, blur,
\* focus) are registered exactly when the instance is active, so no pointer or
\* focus handler of the instance runs while it is inactive.
C35_ListenersWhileActive ==
    /\ IF cursor.isActive
       THEN InputListeners \subseteq window.listeners
       ELSE InputListeners \cap window.listeners = {}
    /\ hist.op \in InputOps => hist.wasActive

\* The resize handler has stopped the instance: the input listeners are
\* detached while the resize watcher stays.
C35_Witness ==
    /\ AutoStopped
    /\ InputListeners \cap window.listeners = {}
    /\ ResizeListeners \subseteq window.listeners

\* The mouse-in-window flag and the hover flags have the values a new
\* instance starts with.
FlagsAsNew ==
    /\ cursor.isMouseInWindow
    /\ ~cursor.isHoveringInteractive
    /\ ~cursor.isPointer
    /\ ~cursor.isOnInteractiveElement

\* C36: destroy() followed by init() puts the instance in the same state as a
\* first init() with the same configuration: in particular the mouse-in-window
\* flag and the hover flags have their initial values, whatever events
\* preceded the destroy().
C36_ReinitIsFirstInit ==
    InitActivated => FlagsAsNew

\* C37: a restyle does not move a layer: after every operation on an active
\* instance (pointer-move, focus, mouseenter, updateOptions, tick) the primary
\* layer's placed left/top equals its displayed position, the ring position in
\* outline mode.
C37_RestyleKeepsPlace ==
    (cursor.isActive /\ cursor.cursorElement # Null) =>
        /\ PrimaryStyle.left = PosPx(DisplayedX)
        /\ PrimaryStyle.top = PosPx(DisplayedY)

\* The primary layer of instance i is attached to the document.
PrimaryAttached(i) ==
    /\ Instance(i).cursorElement # Null
    /\ document.nodes[Instance(i).cursorElement].parentNode # ""

\* C38: layers are never shared across instances and one instance does not
\* disturb another: with two instances, init(), updateOptions() or destroy()
\* on one never removes a layer that belongs to the other active instance, so
\* every active instance keeps its primary layer attached to the document.
C38_InstancesKeepTheirLayers ==
    /\ \A i \in Instances : Instance(i).isActive => PrimaryAttached(i)
    /\ (Instance(1).isActive /\ Instance(2).isActive) =>
           Instance(1).cursorElement # Instance(2).cursorElement

====
